---- MODULE Spec2Model ----
(***************************************************************************)
(* Ray tracing of PyAutoLens: Plane, Tracer and MultiTracer of             *)
(* src/src/analysis/ray_tracing.py.  A constructor call is one action: it  *)
(* takes its arguments from bounded sets and leaves either the constructed *)
(* object or the exception that the call raised.                           *)
(*                                                                         *)
(* Optional values (a redshift, a cosmology, an attribute that is only set *)
(* on some paths) are sequences of length at most one: None is <<>> and a  *)
(* value x is <<x>>.  A galaxy carries its position in the caller's        *)
(* argument list as id, which stands for the identity of the Python        *)
(* object.  Points are pairs <<y, x>> of integers.                         *)
(***************************************************************************)
EXTENDS Integers, Sequences, FiniteSets, TLC

VARIABLES call, obj, raised, ret

vars == <<call, obj, raised, ret>>

\* Bounds of the model.
MaxGalaxies == 3
MaxRedshift == 3

None == <<>>
Some(x) == <<x>>

Nothing == [kind |-> "none"]
NoCall == [op |-> "none"]
NoException == "none"

Redshifts == {None} \cup {Some(z) : z \in 1..MaxRedshift}
Cosmologies == {None, Some("Planck15")}

\* A galaxy: its redshift, its mass profiles (the einstein radius of each
\* spherical isothermal profile) and whether it carries a pixelization.
Galaxy(id, redshift, mass_profiles, has_pixelization) ==
    [id |-> id, redshift |-> redshift, mass_profiles |-> mass_profiles,
     has_pixelization |-> has_pixelization]

\* The mass profiles of the galaxy fixtures: none, or one SIS of einstein radius 1.
MassProfiles == {<<>>, <<1>>}

\* All argument lists of at most MaxGalaxies galaxies over the given attributes.
GalaxyLists(Zs, Ms, Ps) ==
    UNION { { [k \in 1..n |-> Galaxy(k, f[k][1], f[k][2], f[k][3])] :
                f \in [1..n -> Zs \X Ms \X Ps] } : n \in 0..MaxGalaxies }

\* The grids of the masked image: image (regular), sub and blurring.
data_grid_stack_1 ==
    [image    |-> << <<2, 2>>, <<2, 2>> >>,
     sub      |-> << <<2, 2>>, <<2, 0>>, <<2, 2>>, <<2, 0>>,
                     <<-2, 4>>, <<-2, 8>>, <<2, 4>>, <<2, 8>> >>,
     blurring |-> << <<2, 0>>, <<-12, -6>>, <<-12, 6>>, <<-12, 18>> >>]

----------------------------------------------------------------------------
\* Grids and deflections (masked_image collaborators).

Sgn(x) == IF x > 0 THEN 1 ELSE IF x < 0 THEN -1 ELSE 0

\* Deflection of one spherical isothermal profile at a point: its einstein
\* radius along the direction of the point.
deflections_of_profile(einstein_radius, p) ==
    <<einstein_radius * Sgn(p[1]), einstein_radius * Sgn(p[2])>>

\* Mutant: only the first mass profile of a galaxy deflects.
SumProfiles_first(profiles, k, p) ==
    IF profiles = <<>> THEN <<0, 0>> ELSE deflections_of_profile(profiles[1], p)

RECURSIVE SumProfiles(_, _, _)
SumProfiles(profiles, k, p) ==
    IF k > Len(profiles) THEN <<0, 0>>
    ELSE LET d == deflections_of_profile(profiles[k], p)
             r == SumProfiles(profiles, k + 1, p)
         IN  <<d[1] + r[1], d[2] + r[2]>>

RECURSIVE SumGalaxies(_, _, _)
SumGalaxies(galaxies, k, p) ==
    IF k > Len(galaxies) THEN <<0, 0>>
    ELSE LET d == SumProfiles(galaxies[k].mass_profiles, 1, p)
             r == SumGalaxies(galaxies, k + 1, p)
         IN  <<d[1] + r[1], d[2] + r[2]>>

deflections_from_grid(grid, galaxies) ==
    [k \in 1..Len(grid) |-> SumGalaxies(galaxies, 1, grid[k])]

\* The deflections of the galaxies on each grid of the masked image.
deflection_masked_image_for_galaxies(masked_image, galaxies) ==
    [image    |-> deflections_from_grid(masked_image.image, galaxies),
     sub      |-> deflections_from_grid(masked_image.sub, galaxies),
     blurring |-> deflections_from_grid(masked_image.blurring, galaxies)]

SubtractGrid(grid, deflections) ==
    [k \in 1..Len(grid) |-> <<grid[k][1] - deflections[k][1],
                              grid[k][2] - deflections[k][2]>>]

\* A new masked image, each grid displaced by the deflections on it.
traced_masked_image_for_deflections(masked_image, deflections) ==
    [image    |-> SubtractGrid(masked_image.image, deflections.image),
     sub      |-> SubtractGrid(masked_image.sub, deflections.sub),
     blurring |-> SubtractGrid(masked_image.blurring, deflections.blurring)]

----------------------------------------------------------------------------
\* Plane.

\* Symbolic values of the cosmology's functions of redshift.
angular_diameter_distance_z1z2(z1, z2) == [from |-> z1, to |-> z2]
angular_diameter_distance(z) == [from |-> 0, to |-> z]

\* Mutant: the critical density is computed only for a plane that has both a
\* previous and a next redshift.
PlaneNew_needs_previous(galaxies, masked_image, previous_redshift, next_redshift, cosmology, compute_deflections) ==
    IF cosmology # None /\ Len(galaxies) = 0
    THEN [raised |-> "IndexError", plane |-> Nothing]
    ELSE IF cosmology # None /\ galaxies[1].redshift = None
    THEN [raised |-> "TypeError", plane |-> Nothing]
    ELSE
    LET with_next == cosmology # None /\ next_redshift # None /\ previous_redshift # None
        z == galaxies[1].redshift[1]
    IN [raised |-> NoException,
        plane |->
         [kind |-> "Plane",
          galaxies |-> galaxies,
          masked_image |-> masked_image,
          deflections |->
              IF compute_deflections
              THEN Some(deflection_masked_image_for_galaxies(masked_image, galaxies))
              ELSE None,
          ang_to_earth_kpc |->
              IF cosmology # None THEN Some(angular_diameter_distance(z)) ELSE None,
          ang_to_previous_plane_kpc |->
              IF cosmology # None /\ previous_redshift # None
              THEN Some(angular_diameter_distance_z1z2(previous_redshift[1], z))
              ELSE None,
          ang_to_next_plane_kpc |->
              IF with_next
              THEN Some(angular_diameter_distance_z1z2(z, next_redshift[1]))
              ELSE None,
          critical_density_kpc |->
              IF with_next THEN Some([plane |-> z, next |-> next_redshift[1]])
              ELSE None,
          critical_density_arcsec |->
              IF with_next THEN Some([plane |-> z, next |-> next_redshift[1]])
              ELSE None,
          \* the arguments of the call, kept for reference
          previous_redshift |-> previous_redshift,
          next_redshift |-> next_redshift,
          compute_deflections |-> compute_deflections]]

\* Plane.__init__: a record of the exception raised (NoException when none)
\* and the plane.  With a cosmology the first galaxy's redshift is read: an
\* empty list raises IndexError, and a redshift of None is rejected by the
\* cosmology's arithmetic with a TypeError.
PlaneNew(galaxies, masked_image, previous_redshift, next_redshift, cosmology, compute_deflections) ==
    IF cosmology # None /\ Len(galaxies) = 0
    THEN [raised |-> "IndexError", plane |-> Nothing]
    ELSE IF cosmology # None /\ galaxies[1].redshift = None
    THEN [raised |-> "TypeError", plane |-> Nothing]
    ELSE
    LET with_next == cosmology # None /\ next_redshift # None
        z == galaxies[1].redshift[1]
    IN [raised |-> NoException,
        plane |->
         [kind |-> "Plane",
          galaxies |-> galaxies,
          masked_image |-> masked_image,
          deflections |->
              IF compute_deflections
              THEN Some(deflection_masked_image_for_galaxies(masked_image, galaxies))
              ELSE None,
          ang_to_earth_kpc |->
              IF cosmology # None THEN Some(angular_diameter_distance(z)) ELSE None,
          ang_to_previous_plane_kpc |->
              IF cosmology # None /\ previous_redshift # None
              THEN Some(angular_diameter_distance_z1z2(previous_redshift[1], z))
              ELSE None,
          ang_to_next_plane_kpc |->
              IF with_next
              THEN Some(angular_diameter_distance_z1z2(z, next_redshift[1]))
              ELSE None,
          critical_density_kpc |->
              IF with_next THEN Some([plane |-> z, next |-> next_redshift[1]])
              ELSE None,
          critical_density_arcsec |->
              IF with_next THEN Some([plane |-> z, next |-> next_redshift[1]])
              ELSE None,
          \* the arguments of the call, kept for reference
          previous_redshift |-> previous_redshift,
          next_redshift |-> next_redshift,
          compute_deflections |-> compute_deflections]]

\* Mutant: the deflections themselves are returned as the next plane's grids.
trace_to_next_plane_deflections(plane) ==
    IF plane.deflections = None
    THEN [raised |-> "AttributeError", value |-> Nothing]
    ELSE [raised |-> NoException, value |-> plane.deflections[1]]

\* Mutant: with a cosmology the deflections are scaled by a ratio of the
\* plane's distances (2 stands for the ratio) before they are subtracted.
trace_to_next_plane_scaled(plane) ==
    IF plane.deflections = None
    THEN [raised |-> "AttributeError", value |-> Nothing]
    ELSE LET traced == traced_masked_image_for_deflections(plane.masked_image,
                                                           plane.deflections[1])
         IN  [raised |-> NoException,
              value |-> IF plane.ang_to_earth_kpc = None THEN traced
                        ELSE traced_masked_image_for_deflections(traced,
                                                                 plane.deflections[1])]

\* Plane.trace_to_next_plane: reads self.deflections, an attribute that is
\* only set when the plane was built with compute_deflections.
trace_to_next_plane(plane) ==
    IF plane.deflections = None
    THEN [raised |-> "AttributeError", value |-> Nothing]
    ELSE [raised |-> NoException,
          value |-> traced_masked_image_for_deflections(plane.masked_image,
                                                        plane.deflections[1])]

\* Mutant: the pixelization is looked up on the first galaxy of the plane.
generate_pixelization_matrices_of_galaxy_first(plane) ==
    LET pixelized_galaxies == SelectSeq(plane.galaxies, LAMBDA g : g.has_pixelization)
    IN  IF Len(pixelized_galaxies) = 0
        THEN [raised |-> NoException, value |-> None]
        ELSE IF Len(pixelized_galaxies) = 1
        THEN [raised |-> NoException,
              value |-> Some([pixelization_of |-> plane.galaxies[1].id,
                              image |-> plane.masked_image.image,
                              sub |-> plane.masked_image.sub])]
        ELSE [raised |-> "PixelizationException", value |-> Nothing]

\* Plane.generate_pixelization_matrices_of_galaxy.  The inversion is named by
\* the galaxy whose pixelization made it and the grids it was given.
generate_pixelization_matrices_of_galaxy(plane) ==
    LET pixelized_galaxies == SelectSeq(plane.galaxies, LAMBDA g : g.has_pixelization)
    IN  IF Len(pixelized_galaxies) = 0
        THEN [raised |-> NoException, value |-> None]
        ELSE IF Len(pixelized_galaxies) = 1
        THEN [raised |-> NoException,
              value |-> Some([pixelization_of |-> pixelized_galaxies[1].id,
                              image |-> plane.masked_image.image,
                              sub |-> plane.masked_image.sub])]
        ELSE [raised |-> "PixelizationException", value |-> Nothing]

----------------------------------------------------------------------------
\* MultiTracer.

\* sorted() compares the keys with <, which None does not support: a list of
\* two or more galaxies with a redshift of None among them raises TypeError.
SortRaises(galaxies) ==
    Len(galaxies) >= 2 /\ \E k \in 1..Len(galaxies) : galaxies[k].redshift = None

\* Mutant: g goes in front of the galaxies of its own redshift (ties reversed).
RECURSIVE InsertByRedshift_unstable(_, _)
InsertByRedshift_unstable(sorted, g) ==
    IF sorted = <<>> THEN <<g>>
    ELSE IF g.redshift[1] <= sorted[1].redshift[1] THEN <<g>> \o sorted
    ELSE <<sorted[1]>> \o InsertByRedshift_unstable(Tail(sorted), g)

\* Insert g behind every galaxy whose redshift is not larger (a stable sort).
RECURSIVE InsertByRedshift(_, _)
InsertByRedshift(sorted, g) ==
    IF sorted = <<>> THEN <<g>>
    ELSE IF g.redshift[1] < sorted[1].redshift[1] THEN <<g>> \o sorted
    ELSE <<sorted[1]>> \o InsertByRedshift(Tail(sorted), g)

RECURSIVE SortFrom(_, _, _)
SortFrom(galaxies, k, sorted) ==
    IF k > Len(galaxies) THEN sorted
    ELSE SortFrom(galaxies, k + 1, InsertByRedshift(sorted, galaxies[k]))

\* Mutant: the galaxies are left in the order given.
SortedByRedshift_unsorted(galaxies) == galaxies

\* sorted(galaxies, key=lambda galaxy: galaxy.redshift, reverse=False)
SortedByRedshift(galaxies) ==
    IF Len(galaxies) <= 1 THEN galaxies ELSE SortFrom(galaxies, 1, <<>>)

\* The redshifts of the sorted galaxies, each at its first occurrence only.
PlanesRedshiftOrder(galaxies_redshift_order) ==
    LET galaxy_redshifts == [k \in 1..Len(galaxies_redshift_order) |->
                                galaxies_redshift_order[k].redshift]
        keep == { i \in 1..Len(galaxy_redshifts) :
                    \A j \in 1..(i - 1) : galaxy_redshifts[j] # galaxy_redshifts[i] }
        RECURSIVE Pick(_)
        Pick(i) == IF i > Len(galaxy_redshifts) THEN <<>>
                   ELSE IF i \in keep THEN <<galaxy_redshifts[i]>> \o Pick(i + 1)
                   ELSE Pick(i + 1)
    IN  Pick(1)

\* Mutant: a plane collects the galaxies up to its redshift, not only those at it.
PlanesGalaxies_up_to(galaxies_redshift_order, planes_redshift_order) ==
    [i \in 1..Len(planes_redshift_order) |->
        SelectSeq(galaxies_redshift_order,
                  LAMBDA g : g.redshift[1] <= planes_redshift_order[i][1])]

\* For each plane redshift, the sorted galaxies of that redshift.
PlanesGalaxies(galaxies_redshift_order, planes_redshift_order) ==
    [i \in 1..Len(planes_redshift_order) |->
        SelectSeq(galaxies_redshift_order,
                  LAMBDA g : g.redshift = planes_redshift_order[i])]

\* Mutant: planes after the second are given the grid traced from the first plane.
PlaneArgs_first_traced(i, planes_redshift_order, planes, masked_image) ==
    LET n == Len(planes_redshift_order)
    IN  IF i = 1
        THEN IF i + 1 > n
             THEN [raised |-> "IndexError"]
             ELSE [raised |-> NoException,
                   compute_deflections |-> TRUE,
                   previous_redshift |-> None,
                   next_redshift |-> planes_redshift_order[i + 1],
                   new_grid |-> masked_image]
        ELSE LET traced == trace_to_next_plane(planes[1])
             IN  IF i < n
                 THEN [raised |-> NoException,
                       compute_deflections |-> TRUE,
                       previous_redshift |-> planes_redshift_order[i - 1],
                       next_redshift |-> planes_redshift_order[i + 1],
                       new_grid |-> traced.value]
                 ELSE [raised |-> NoException,
                       compute_deflections |-> FALSE,
                       previous_redshift |-> planes_redshift_order[i - 1],
                       next_redshift |-> None,
                       new_grid |-> traced.value]

\* Mutant: the last plane computes its deflections too.
PlaneArgs_last_deflects(i, planes_redshift_order, planes, masked_image) ==
    LET n == Len(planes_redshift_order)
    IN  IF i = 1
        THEN IF i + 1 > n
             THEN [raised |-> "IndexError"]
             ELSE [raised |-> NoException,
                   compute_deflections |-> TRUE,
                   previous_redshift |-> None,
                   next_redshift |-> planes_redshift_order[i + 1],
                   new_grid |-> masked_image]
        ELSE LET traced == trace_to_next_plane(planes[i - 1])
             IN  [raised |-> NoException,
                  compute_deflections |-> TRUE,
                  previous_redshift |-> planes_redshift_order[i - 1],
                  next_redshift |-> IF i < n THEN planes_redshift_order[i + 1] ELSE None,
                  new_grid |-> traced.value]

\* One pass of the loop over the planes: the arguments of plane i (indices
\* from 1), or the exception raised while they are worked out.
PlaneArgs(i, planes_redshift_order, planes, masked_image) ==
    LET n == Len(planes_redshift_order)
    IN  IF i = 1
        THEN IF i + 1 > n
             THEN [raised |-> "IndexError"]
             ELSE [raised |-> NoException,
                   compute_deflections |-> TRUE,
                   previous_redshift |-> None,
                   next_redshift |-> planes_redshift_order[i + 1],
                   new_grid |-> masked_image]
        ELSE LET traced == trace_to_next_plane(planes[i - 1])
             IN  IF traced.raised # NoException
                 THEN [raised |-> traced.raised]
                 ELSE IF i < n
                 THEN [raised |-> NoException,
                       compute_deflections |-> TRUE,
                       previous_redshift |-> planes_redshift_order[i - 1],
                       next_redshift |-> planes_redshift_order[i + 1],
                       new_grid |-> traced.value]
                 ELSE IF i = n
                 THEN [raised |-> NoException,
                       compute_deflections |-> FALSE,
                       previous_redshift |-> planes_redshift_order[i - 1],
                       next_redshift |-> None,
                       new_grid |-> traced.value]
                 ELSE [raised |-> "RayTracingException"]

RECURSIVE BuildPlanes(_, _, _, _, _)
BuildPlanes(i, planes, planes_redshift_order, planes_galaxies, env) ==
    IF i > Len(planes_redshift_order)
    THEN [raised |-> NoException, planes |-> planes]
    ELSE LET a == PlaneArgs(i, planes_redshift_order, planes, env.masked_image)
         IN  IF a.raised # NoException
             THEN [raised |-> a.raised, planes |-> planes]
             ELSE LET p == PlaneNew(planes_galaxies[i], a.new_grid, a.previous_redshift,
                                    a.next_redshift, env.cosmology, a.compute_deflections)
                  IN  IF p.raised # NoException
                      THEN [raised |-> p.raised, planes |-> planes]
                      ELSE BuildPlanes(i + 1, Append(planes, p.plane),
                                       planes_redshift_order, planes_galaxies, env)

\* MultiTracer.__init__
MultiTracerNew(galaxies, masked_image, cosmology) ==
    IF SortRaises(galaxies)
    THEN [raised |-> "TypeError", tracer |-> Nothing]
    ELSE
    LET galaxies_redshift_order == SortedByRedshift(galaxies)
        planes_redshift_order == PlanesRedshiftOrder(galaxies_redshift_order)
        planes_galaxies == PlanesGalaxies(galaxies_redshift_order, planes_redshift_order)
        built == BuildPlanes(1, <<>>, planes_redshift_order, planes_galaxies,
                             [masked_image |-> masked_image, cosmology |-> cosmology])
    IN  IF built.raised # NoException
        THEN [raised |-> built.raised, tracer |-> Nothing]
        ELSE [raised |-> NoException,
              tracer |-> [kind |-> "MultiTracer",
                          cosmology |-> cosmology,
                          galaxies_redshift_order |-> galaxies_redshift_order,
                          planes_redshift_order |-> planes_redshift_order,
                          planes_galaxies |-> planes_galaxies,
                          planes |-> built.planes]]

----------------------------------------------------------------------------
\* Tracer.

\* Tracer.__init__: source_galaxies[0] and lens_galaxies[0] are read for the
\* neighbouring redshifts, so an empty list raises IndexError.
TracerNew(lens_galaxies, source_galaxies, masked_image, cosmology) ==
    IF Len(source_galaxies) = 0
    THEN [raised |-> "IndexError", tracer |-> Nothing]
    ELSE
    LET image_plane == PlaneNew(lens_galaxies, masked_image, None,
                                source_galaxies[1].redshift, cosmology, TRUE)
        traced == trace_to_next_plane(image_plane.plane)
        source_plane == PlaneNew(source_galaxies, traced.value,
                                 lens_galaxies[1].redshift, None, cosmology, FALSE)
    IN  IF image_plane.raised # NoException
        THEN [raised |-> image_plane.raised, tracer |-> Nothing]
        ELSE IF traced.raised # NoException
        THEN [raised |-> traced.raised, tracer |-> Nothing]
        ELSE IF Len(lens_galaxies) = 0
        THEN [raised |-> "IndexError", tracer |-> Nothing]
        ELSE IF source_plane.raised # NoException
        THEN [raised |-> source_plane.raised, tracer |-> Nothing]
        ELSE [raised |-> NoException,
              tracer |-> [kind |-> "Tracer",
                          cosmology |-> cosmology,
                          image_plane |-> image_plane.plane,
                          source_plane |-> source_plane.plane]]

generate_pixelization_matrices_of_source_galaxy(tracer) ==
    generate_pixelization_matrices_of_galaxy(tracer.source_plane)

----------------------------------------------------------------------------
\* Images of light profiles.  An image value is a fraction <<numerator,
\* denominator>> in lowest terms, so that the average over the sub-grid is
\* exact.

Abs(x) == IF x < 0 THEN -x ELSE x

RECURSIVE GCD(_, _)
GCD(a, b) == IF b = 0 THEN a ELSE GCD(b, a % b)

Frac(n, d) == LET g == GCD(Abs(n), d) IN <<n \div g, d \div g>>

FracAdd(a, b) == Frac(a[1] * b[2] + b[1] * a[2], a[2] * b[2])

\* a + b on arrays (numpy, element by element)
AddImages(a, b) == [k \in 1..Len(a) |-> FracAdd(a[k], b[k])]

\* A light profile: constant over the grid, or growing with the distance of
\* the point from the centre (a stand-in for a profile that depends on the point).
ConstantProfile(intensity) == [intensity |-> intensity, constant |-> TRUE]
RadialProfile(intensity) == [intensity |-> intensity, constant |-> FALSE]

intensities_of_profile(profile, p) ==
    IF profile.constant THEN profile.intensity
    ELSE profile.intensity * (1 + Abs(p[1]) + Abs(p[2]))

\* A galaxy with light profiles (and no pixelization).
LightGalaxy(id, redshift, mass_profiles, light_profiles) ==
    [id |-> id, redshift |-> redshift, mass_profiles |-> mass_profiles,
     has_pixelization |-> FALSE, light_profiles |-> light_profiles]

\* The light profiles of the galaxy fixtures.
LightProfiles ==
    {<<>>, <<ConstantProfile(1)>>, <<ConstantProfile(2)>>, <<RadialProfile(1)>>}

LightGalaxyLists(Zs, Ms, Ls) ==
    UNION { { [k \in 1..n |-> LightGalaxy(k, f[k][1], f[k][2], f[k][3])] :
                f \in [1..n -> Zs \X Ms \X Ls] } : n \in 0..MaxGalaxies }

\* The mapping between the sub-grid and the image pixels of the masked image:
\* sub-grid points 1..4 belong to pixel 1 and 5..8 to pixel 2.
data_mapping ==
    [sub_grid_size |-> 2, image_pixels |-> 2,
     sub_to_image |-> <<1, 1, 1, 1, 2, 2, 2, 2>>]

RECURSIVE SumLightProfiles(_, _, _)
SumLightProfiles(profiles, k, p) ==
    IF k > Len(profiles) THEN 0
    ELSE intensities_of_profile(profiles[k], p) + SumLightProfiles(profiles, k + 1, p)

RECURSIVE SumLightGalaxies(_, _, _)
SumLightGalaxies(galaxies, k, p) ==
    IF k > Len(galaxies) THEN 0
    ELSE SumLightProfiles(galaxies[k].light_profiles, 1, p)
            + SumLightGalaxies(galaxies, k + 1, p)

\* Mutant: only the first galaxy of the plane contributes to the image.
intensities_from_grid_first_galaxy(grid, galaxies) ==
    [k \in 1..Len(grid) |->
        IF galaxies = <<>> THEN 0
        ELSE SumLightProfiles(galaxies[1].light_profiles, 1, grid[k])]

\* The summed intensities of the galaxies at every point of a grid.
intensities_from_grid(grid, galaxies) ==
    [k \in 1..Len(grid) |-> SumLightGalaxies(galaxies, 1, grid[k])]

\* The sum of the values of the sub-grid points from k on that belong to pixel.
RECURSIVE SumOfPixel(_, _, _, _)
SumOfPixel(values, sub_to_image, pixel, k) ==
    IF k > Len(values) THEN 0
    ELSE (IF sub_to_image[k] = pixel THEN values[k] ELSE 0)
            + SumOfPixel(values, sub_to_image, pixel, k + 1)

\* grid.intensities_via_grid(galaxies, mapping): with a mapping the values on
\* the sub-grid are averaged into one value per image pixel; without one
\* (the blurring grid) there is one value per point of the grid.
intensities_via_grid(grid, galaxies, mapping) ==
    LET values == intensities_from_grid(grid, galaxies)
    IN  IF mapping = None
        THEN [k \in 1..Len(grid) |-> Frac(values[k], 1)]
        ELSE [pixel \in 1..mapping[1].image_pixels |->
                Frac(SumOfPixel(values, mapping[1].sub_to_image, pixel, 1),
                     mapping[1].sub_grid_size * mapping[1].sub_grid_size)]

\* Mutant: the sub-grid is evaluated without the mapping, as the blurring grid is.
generate_image_of_galaxy_light_profiles_unmapped(plane, mapping) ==
    intensities_via_grid(plane.masked_image.sub, plane.galaxies, None)

\* Plane.generate_image_of_galaxy_light_profiles
generate_image_of_galaxy_light_profiles(plane, mapping) ==
    intensities_via_grid(plane.masked_image.sub, plane.galaxies, Some(mapping))

\* Plane.generate_blurring_image_of_galaxy_light_profiles
generate_blurring_image_of_galaxy_light_profiles(plane) ==
    intensities_via_grid(plane.masked_image.blurring, plane.galaxies, None)

\* Mutant: entry i is the image of the galaxies up to i, not of galaxy i alone.
image_plane_image_1d_of_galaxies_cumulative(plane, mapping) ==
    [i \in 1..Len(plane.galaxies) |->
        intensities_via_grid(plane.masked_image.sub, SubSeq(plane.galaxies, 1, i),
                             Some(mapping))]

\* plane.image_plane_image_1d_of_galaxies: one sub-grid-averaged image per galaxy
image_plane_image_1d_of_galaxies(plane, mapping) ==
    [i \in 1..Len(plane.galaxies) |->
        intensities_via_grid(plane.masked_image.sub, <<plane.galaxies[i]>>,
                             Some(mapping))]

\* Mutant: the tracer's image is the image of its image plane only.
Tracer_generate_image_of_galaxy_light_profiles_image_plane_only(tracer, mapping) ==
    generate_image_of_galaxy_light_profiles(tracer.image_plane, mapping)

\* Tracer.generate_image_of_galaxy_light_profiles
Tracer_generate_image_of_galaxy_light_profiles(tracer, mapping) ==
    AddImages(generate_image_of_galaxy_light_profiles(tracer.image_plane, mapping),
              generate_image_of_galaxy_light_profiles(tracer.source_plane, mapping))

\* Tracer.generate_blurring_image_of_galaxy_light_profiles
Tracer_generate_blurring_image_of_galaxy_light_profiles(tracer) ==
    AddImages(generate_blurring_image_of_galaxy_light_profiles(tracer.image_plane),
              generate_blurring_image_of_galaxy_light_profiles(tracer.source_plane))

----------------------------------------------------------------------------
\* Surface density and potential of mass profiles.  The value of a profile at
\* a point stands for the profile's formula: it is positive for every profile
\* and depends on the point.

surface_density_of_profile(einstein_radius, p) ==
    einstein_radius * (1 + Abs(p[1]) + Abs(p[2]))

potential_of_profile(einstein_radius, p) ==
    einstein_radius * (Abs(p[1]) + Abs(p[2]) + 2)

RECURSIVE SumSurfaceDensity(_, _, _, _)
SumSurfaceDensity(galaxies, g, m, p) ==
    IF g > Len(galaxies) THEN 0
    ELSE IF m > Len(galaxies[g].mass_profiles)
    THEN SumSurfaceDensity(galaxies, g + 1, 1, p)
    ELSE surface_density_of_profile(galaxies[g].mass_profiles[m], p)
            + SumSurfaceDensity(galaxies, g, m + 1, p)

RECURSIVE SumPotential(_, _, _, _)
SumPotential(galaxies, g, m, p) ==
    IF g > Len(galaxies) THEN 0
    ELSE IF m > Len(galaxies[g].mass_profiles)
    THEN SumPotential(galaxies, g + 1, 1, p)
    ELSE potential_of_profile(galaxies[g].mass_profiles[m], p)
            + SumPotential(galaxies, g, m + 1, p)

\* plane.surface_density_from_grid(grid, galaxies)
surface_density_from_grid(grid, galaxies) ==
    [k \in 1..Len(grid) |-> SumSurfaceDensity(galaxies, 1, 1, grid[k])]

\* plane.potential_from_grid(grid, galaxies)
potential_from_grid(grid, galaxies) ==
    [k \in 1..Len(grid) |-> SumPotential(galaxies, 1, 1, grid[k])]

----------------------------------------------------------------------------
\* Grid stacks as objects.  A heap is the sequence of the grid stacks that
\* exist, an address is a position in it; a plane on the heap refers to its
\* grid stack and its deflection stack by address.

Alloc(heap, value) == [heap |-> Append(heap, value), address |-> Len(heap) + 1]

\* Plane.__init__ on the heap: the plane keeps the reference it is given, and
\* the deflection stack is a new object.
PlaneOnHeap(heap, galaxies, masked_image, compute_deflections) ==
    LET deflections ==
            Alloc(heap, deflection_masked_image_for_galaxies(heap[masked_image], galaxies))
    IN  IF compute_deflections
        THEN [heap |-> deflections.heap,
              plane |-> [galaxies |-> galaxies, masked_image |-> masked_image,
                         deflections |-> Some(deflections.address)]]
        ELSE [heap |-> heap,
              plane |-> [galaxies |-> galaxies, masked_image |-> masked_image,
                         deflections |-> None]]

\* Mutant: the plane's grid stack is displaced in place and returned.
trace_to_next_plane_on_heap_in_place(heap, plane) ==
    [heap |-> [heap EXCEPT ![plane.masked_image] =
                  traced_masked_image_for_deflections(heap[plane.masked_image],
                                                      heap[plane.deflections[1]])],
     address |-> plane.masked_image]

\* Plane.trace_to_next_plane on the heap: the traced grid stack is a new
\* collection; the plane's own stack and its deflections are only read.
trace_to_next_plane_on_heap(heap, plane) ==
    Alloc(heap, traced_masked_image_for_deflections(heap[plane.masked_image],
                                                    heap[plane.deflections[1]]))

\* The loop of MultiTracer.__init__ on the heap, for plane lists that the
\* constructor accepts: the first plane is given the caller's stack itself,
\* every later plane the stack traced from the plane before it, and all but
\* the last compute deflections.
RECURSIVE BuildPlanesOnHeap(_, _, _, _, _)
BuildPlanesOnHeap(i, planes, planes_galaxies, heap, masked_image) ==
    IF i > Len(planes_galaxies)
    THEN [heap |-> heap, planes |-> planes]
    ELSE LET new_grid == IF i = 1
                         THEN [heap |-> heap, address |-> masked_image]
                         ELSE trace_to_next_plane_on_heap(heap, planes[i - 1])
             p == PlaneOnHeap(new_grid.heap, planes_galaxies[i], new_grid.address,
                              i < Len(planes_galaxies))
         IN  BuildPlanesOnHeap(i + 1, Append(planes, p.plane), planes_galaxies,
                               p.heap, masked_image)

\* MultiTracer.__init__ with the caller's grid stack at an address of the heap.
MultiTracerOnHeap(galaxies, heap, masked_image, cosmology) ==
    LET r == MultiTracerNew(galaxies, heap[masked_image], cosmology)
        built == BuildPlanesOnHeap(1, <<>>, r.tracer.planes_galaxies, heap, masked_image)
    IN  IF r.raised # NoException
        THEN [raised |-> r.raised, tracer |-> Nothing]
        ELSE [raised |-> NoException,
              tracer |-> [kind |-> "MultiTracerOnHeap", heap |-> built.heap,
                          masked_image |-> masked_image, planes |-> built.planes]]

----------------------------------------------------------------------------
\* FitImaging.  An image is a sequence of whole numbers, one per pixel.

MaxPlanes == 3

\* The data image of the imaging dataset and the image the inversion
\* reconstructs, on two pixels.
imaging_image == <<9, 7>>
mapped_reconstructed_image == <<2, 1>>

\* The blurred images a plane's light profiles can give.
BlurredImages == {<<0, 0>>, <<1, 2>>, <<3, 1>>}

\* a + b and a - b on arrays (numpy, element by element)
AddArrays(a, b) == [k \in 1..Len(a) |-> a[k] + b[k]]
SubtractArrays(a, b) == [k \in 1..Len(a) |-> a[k] - b[k]]

\* sum(arrays): Python's sum starts from 0, which numpy broadcasts over the
\* pixels of the image it is then combined with.
RECURSIVE SumArrays(_, _)
SumArrays(arrays, like) ==
    IF arrays = <<>> THEN [k \in 1..Len(like) |-> 0]
    ELSE AddArrays(SumArrays(SubSeq(arrays, 1, Len(arrays) - 1), like),
                   arrays[Len(arrays)])

\* tracer.plane_indexes_with_pixelizations
plane_indexes_with_pixelizations(tracer) ==
    {i \in 1..Len(tracer.planes) : tracer.planes[i].has_pixelization}

\* FitImaging.__init__: the fit keeps the tracer and the data image; there is
\* an inversion only when a plane of the tracer has a pixelization.
FitImagingNew(image, tracer) ==
    [kind |-> "FitImaging",
     image |-> image,
     tracer |-> tracer,
     inversion |-> IF plane_indexes_with_pixelizations(tracer) # {}
                   THEN Some([mapped_reconstructed_image |-> mapped_reconstructed_image])
                   ELSE None]

\* FitImaging.model_images_of_planes: the blurred image of every plane, the
\* reconstructed image added to each plane that has a pixelization.
model_images_of_planes(fit) ==
    [i \in 1..Len(fit.tracer.planes) |->
        IF i \in plane_indexes_with_pixelizations(fit.tracer)
        THEN AddArrays(fit.tracer.planes[i].blurred_image,
                       fit.inversion[1].mapped_reconstructed_image)
        ELSE fit.tracer.planes[i].blurred_image]

\* The entries of a list other than entry i, in order.
RECURSIVE OtherEntries(_, _, _)
OtherEntries(list, i, k) ==
    IF k > Len(list) THEN <<>>
    ELSE IF k = i THEN OtherEntries(list, i, k + 1)
    ELSE <<list[k]>> \o OtherEntries(list, i, k + 1)

\* Mutant: the model images of all planes are subtracted, the plane's own too.
subtracted_images_of_planes_all(fit) ==
    [galaxy_index \in 1..Len(fit.tracer.planes) |->
        SubtractArrays(fit.image, SumArrays(model_images_of_planes(fit), fit.image))]

\* FitImaging.subtracted_images_of_planes
subtracted_images_of_planes(fit) ==
    [galaxy_index \in 1..Len(fit.tracer.planes) |->
        LET other_planes_model_images ==
                OtherEntries(model_images_of_planes(fit), galaxy_index, 1)
        IN  SubtractArrays(fit.image, SumArrays(other_planes_model_images, fit.image))]

----------------------------------------------------------------------------
\* AnalysisImaging.  What a call of fit_imaging_for_instance does is given by
\* the environment: it returns a fit with a figure of merit or raises.

MaxAttempts == 3

\* The exceptions log_likelihood_function turns into FitException, and others.
FitExceptions ==
    {"PixelizationException", "InversionException", "GridException", "OverflowError"}
OtherExceptions == {"RayTracingException", "ValueError"}

FitReturns(figure_of_merit) ==
    [raised |-> NoException, figure_of_merit |-> figure_of_merit]
FitRaises(exception) == [raised |-> exception, figure_of_merit |-> 0]

FitOutcomes ==
    {FitReturns(1), FitReturns(2)}
        \cup {FitRaises(e) : e \in FitExceptions \cup OtherExceptions}

\* Mutant: an unfit parameter point is fitted a second time before giving up.
log_likelihood_function_retry(fits) ==
    IF fits[1].raised = NoException
    THEN [raised |-> NoException, value |-> Some(fits[1].figure_of_merit), fit_calls |-> 1]
    ELSE IF fits[1].raised \notin FitExceptions
    THEN [raised |-> fits[1].raised, value |-> None, fit_calls |-> 1]
    ELSE IF fits[2].raised = NoException
    THEN [raised |-> NoException, value |-> Some(fits[2].figure_of_merit), fit_calls |-> 2]
    ELSE [raised |-> "FitException", value |-> None, fit_calls |-> 2]

\* AnalysisImaging.log_likelihood_function; fits[k] is what the k-th call of
\* fit_imaging_for_instance does.
log_likelihood_function(fits) ==
    IF fits[1].raised = NoException
    THEN [raised |-> NoException, value |-> Some(fits[1].figure_of_merit), fit_calls |-> 1]
    ELSE IF fits[1].raised \in FitExceptions
    THEN [raised |-> "FitException", value |-> None, fit_calls |-> 1]
    ELSE [raised |-> fits[1].raised, value |-> None, fit_calls |-> 1]

\* The loop of preload_fit_list_from_random_instances from pass i (from 0) on;
\* fits[k] is what the next fit does.  A pass whose fit raises goes on to the
\* test i == preload_attempts; when the passes are used up without a fit,
\* `return fit` reads a local that was never bound.
RECURSIVE RandomInstancesLoop(_, _, _, _)
RandomInstancesLoop(i, preload_attempts, fits, k) ==
    IF i >= preload_attempts
    THEN [raised |-> "UnboundLocalError", fit |-> None, attempts |-> i, next |-> k]
    ELSE IF fits[k].raised = NoException
    THEN [raised |-> NoException, fit |-> Some(k), attempts |-> i + 1, next |-> k + 1]
    ELSE IF i = preload_attempts
    THEN [raised |-> "AnalysisException", fit |-> None, attempts |-> i + 1, next |-> k + 1]
    ELSE RandomInstancesLoop(i + 1, preload_attempts, fits, k + 1)

\* AnalysisImaging.preload_fit_list_from_random_instances, the fits taken
\* from position k of the environment's list on.
preload_fit_list_from_random_instances(preload_attempts, fits, k) ==
    RandomInstancesLoop(0, preload_attempts, fits, k)

\* AnalysisImaging.set_preloads: the exception it raises, the configuration
\* flag general.model.ignore_prior_limits when it is left, the preloads set
\* and the text written to preloads.summary.
set_preloads(ignore_prior_limits, preload_attempts, unit_values_raise, fits) ==
    LET done(fit_0, fit_1) ==
            [raised |-> NoException, ignore_prior_limits |-> ignore_prior_limits,
             preloads |-> Some([fit_0 |-> fit_0, fit_1 |-> fit_1]),
             summary |-> Some("info")]
        left(exception) ==
            IF exception = "AnalysisException"
            THEN [raised |-> NoException, ignore_prior_limits |-> TRUE,
                  preloads |-> None, summary |-> Some("FAILED")]
            ELSE [raised |-> exception, ignore_prior_limits |-> TRUE,
                  preloads |-> None, summary |-> None]
        fit_0 == preload_fit_list_from_random_instances(preload_attempts, fits, 1)
        fit_1 == preload_fit_list_from_random_instances(preload_attempts, fits, fit_0.next)
    IN  IF ~unit_values_raise THEN done("unit_0", "unit_1")
        ELSE IF fit_0.raised # NoException THEN left(fit_0.raised)
        ELSE IF fit_1.raised # NoException THEN left(fit_1.raised)
        ELSE done(fit_0.fit[1], fit_1.fit[1])

----------------------------------------------------------------------------
\* The calls.

\* What a method call returned.
Returned(value) == [kind |-> "returned", value |-> value]

\* Argument lists for ray tracing and for the pixelization lookup.
TracingGalaxies == GalaxyLists(Redshifts, MassProfiles, {FALSE})
PixelizationGalaxies == GalaxyLists({None}, MassProfiles, BOOLEAN)

Fresh == call = NoCall /\ obj = Nothing /\ raised = NoException /\ ret = Nothing

Constructed(kind) == obj # Nothing /\ obj.kind = kind /\ ret = Nothing /\ raised = NoException

Init == call = NoCall /\ obj = Nothing /\ raised = NoException /\ ret = Nothing

\* MultiTracer(galaxies, masked_image, cosmology)
MultiTracerInit ==
    /\ Fresh
    /\ \E galaxies \in TracingGalaxies, cosmology \in Cosmologies :
         LET r == MultiTracerNew(galaxies, data_grid_stack_1, cosmology)
         IN  /\ call' = [op |-> "MultiTracer", galaxies |-> galaxies,
                         cosmology |-> cosmology]
             /\ obj' = r.tracer
             /\ raised' = r.raised
    /\ UNCHANGED ret

\* Tracer(lens_galaxies, source_galaxies, masked_image, cosmology) over S
TracerInitOver(S) ==
    /\ Fresh
    /\ \E galaxies \in S, cosmology \in Cosmologies :
       \E split \in 0..Len(galaxies) :
         LET lens_galaxies == SubSeq(galaxies, 1, split)
             source_galaxies == SubSeq(galaxies, split + 1, Len(galaxies))
             r == TracerNew(lens_galaxies, source_galaxies, data_grid_stack_1, cosmology)
         IN  /\ call' = [op |-> "Tracer", galaxies |-> galaxies,
                         lens_galaxies |-> lens_galaxies,
                         source_galaxies |-> source_galaxies,
                         cosmology |-> cosmology]
             /\ obj' = r.tracer
             /\ raised' = r.raised
    /\ UNCHANGED ret

\* Plane(galaxies, masked_image, cosmology=..., compute_deflections=...) over S
PlaneInitOver(S) ==
    /\ Fresh
    /\ \E galaxies \in S, cosmology \in Cosmologies, compute_deflections \in BOOLEAN :
         LET r == PlaneNew(galaxies, data_grid_stack_1, None, None, cosmology,
                           compute_deflections)
         IN  /\ call' = [op |-> "Plane", galaxies |-> galaxies,
                         cosmology |-> cosmology,
                         compute_deflections |-> compute_deflections]
             /\ obj' = r.plane
             /\ raised' = r.raised
    /\ UNCHANGED ret

TracerInit == TracerInitOver(TracingGalaxies)

PlaneInit == PlaneInitOver(TracingGalaxies)

\* plane.trace_to_next_plane()
TraceToNextPlane ==
    /\ Constructed("Plane")
    /\ LET r == trace_to_next_plane(obj)
       IN  /\ raised' = r.raised
           /\ ret' = IF r.raised = NoException THEN Returned(r.value) ELSE Nothing
    /\ UNCHANGED <<call, obj>>

Next == MultiTracerInit \/ TracerInit \/ PlaneInit \/ TraceToNextPlane

Spec == Init /\ [][Next]_vars

PixPlaneInit == PlaneInitOver(PixelizationGalaxies)

PixTracerInit == TracerInitOver(PixelizationGalaxies)

\* plane.generate_pixelization_matrices_of_galaxy(mapping)
GeneratePixelizationMatricesOfGalaxy ==
    /\ Constructed("Plane")
    /\ LET r == generate_pixelization_matrices_of_galaxy(obj)
       IN  /\ raised' = r.raised
           /\ ret' = IF r.raised = NoException THEN Returned(r.value) ELSE Nothing
    /\ UNCHANGED <<call, obj>>

\* tracer.generate_pixelization_matrices_of_source_galaxy(mapping)
GeneratePixelizationMatricesOfSourceGalaxy ==
    /\ Constructed("Tracer")
    /\ LET r == generate_pixelization_matrices_of_source_galaxy(obj)
       IN  /\ raised' = r.raised
           /\ ret' = IF r.raised = NoException THEN Returned(r.value) ELSE Nothing
    /\ UNCHANGED <<call, obj>>

NextPix ==
    \/ PixPlaneInit
    \/ PixTracerInit
    \/ GeneratePixelizationMatricesOfGalaxy
    \/ GeneratePixelizationMatricesOfSourceGalaxy

SpecPix == Init /\ [][NextPix]_vars

\* What a named method returned.
ReturnedFrom(method, value) ==
    [kind |-> "returned", method |-> method, value |-> value]

\* Argument lists for the images: galaxies without redshift, with or without
\* a mass profile, with the light profiles of the fixtures.
ImageGalaxies == LightGalaxyLists({None}, MassProfiles, LightProfiles)

ImagePlaneInit == PlaneInitOver(ImageGalaxies)

ImageTracerInit == TracerInitOver(ImageGalaxies)

\* plane.generate_image_of_galaxy_light_profiles(mapping)
PlaneGenerateImage ==
    /\ Constructed("Plane")
    /\ ret' = ReturnedFrom("generate_image_of_galaxy_light_profiles",
                           generate_image_of_galaxy_light_profiles(obj, data_mapping))
    /\ UNCHANGED <<call, obj, raised>>

\* plane.generate_blurring_image_of_galaxy_light_profiles()
PlaneGenerateBlurringImage ==
    /\ Constructed("Plane")
    /\ ret' = ReturnedFrom("generate_blurring_image_of_galaxy_light_profiles",
                           generate_blurring_image_of_galaxy_light_profiles(obj))
    /\ UNCHANGED <<call, obj, raised>>

\* plane.image_plane_image_1d_of_galaxies
PlaneImageOfGalaxies ==
    /\ Constructed("Plane")
    /\ ret' = ReturnedFrom("image_plane_image_1d_of_galaxies",
                           image_plane_image_1d_of_galaxies(obj, data_mapping))
    /\ UNCHANGED <<call, obj, raised>>

\* tracer.generate_image_of_galaxy_light_profiles(mapping)
TracerGenerateImage ==
    /\ Constructed("Tracer")
    /\ ret' = ReturnedFrom("generate_image_of_galaxy_light_profiles",
                           Tracer_generate_image_of_galaxy_light_profiles(obj, data_mapping))
    /\ UNCHANGED <<call, obj, raised>>

\* tracer.generate_blurring_image_of_galaxy_light_profiles()
TracerGenerateBlurringImage ==
    /\ Constructed("Tracer")
    /\ ret' = ReturnedFrom("generate_blurring_image_of_galaxy_light_profiles",
                           Tracer_generate_blurring_image_of_galaxy_light_profiles(obj))
    /\ UNCHANGED <<call, obj, raised>>

NextImage ==
    \/ ImagePlaneInit
    \/ ImageTracerInit
    \/ PlaneGenerateImage
    \/ PlaneGenerateBlurringImage
    \/ PlaneImageOfGalaxies
    \/ TracerGenerateImage
    \/ TracerGenerateBlurringImage

SpecImage == Init /\ [][NextImage]_vars

\* The mass profiles of the galaxy fixtures with mass: none, one SIS of
\* einstein radius 1, two SIS of einstein radius 1.
MassProfilesX2 == {<<>>, <<1>>, <<1, 1>>}

\* Argument lists for the deflections: galaxies without redshift or at one redshift.
MassGalaxies == GalaxyLists({None, Some(1)}, MassProfilesX2, {FALSE})

MassPlaneInit == PlaneInitOver(MassGalaxies)

\* surface_density_from_grid(plane.masked_image.image, plane.galaxies)
PlaneSurfaceDensity ==
    /\ Constructed("Plane")
    /\ ret' = ReturnedFrom("surface_density_from_grid",
                           surface_density_from_grid(obj.masked_image.image, obj.galaxies))
    /\ UNCHANGED <<call, obj, raised>>

\* potential_from_grid(plane.masked_image.image, plane.galaxies)
PlanePotential ==
    /\ Constructed("Plane")
    /\ ret' = ReturnedFrom("potential_from_grid",
                           potential_from_grid(obj.masked_image.image, obj.galaxies))
    /\ UNCHANGED <<call, obj, raised>>

NextMass ==
    \/ MassPlaneInit
    \/ TraceToNextPlane
    \/ PlaneSurfaceDensity
    \/ PlanePotential

SpecMass == Init /\ [][NextMass]_vars

\* MultiTracer(galaxies, masked_image, cosmology), the caller's grid stack
\* being the only object of the heap.
HeapMultiTracerInit ==
    /\ Fresh
    /\ \E galaxies \in TracingGalaxies, cosmology \in Cosmologies :
         LET r == MultiTracerOnHeap(galaxies, <<data_grid_stack_1>>, 1, cosmology)
         IN  /\ call' = [op |-> "MultiTracer", galaxies |-> galaxies,
                         cosmology |-> cosmology]
             /\ obj' = r.tracer
             /\ raised' = r.raised
    /\ UNCHANGED ret

\* tracer.planes[i].trace_to_next_plane(), called once more by the caller
HeapTraceToNextPlane ==
    /\ Constructed("MultiTracerOnHeap")
    /\ \E i \in 1..Len(obj.planes) :
         IF obj.planes[i].deflections = None
         THEN /\ raised' = "AttributeError"
              /\ UNCHANGED <<obj, ret>>
         ELSE LET r == trace_to_next_plane_on_heap(obj.heap, obj.planes[i])
              IN  /\ obj' = [obj EXCEPT !.heap = r.heap]
                  /\ ret' = Returned([plane |-> i, address |-> r.address])
                  /\ UNCHANGED raised
    /\ UNCHANGED call

NextHeap == HeapMultiTracerInit \/ HeapTraceToNextPlane

SpecHeap == Init /\ [][NextHeap]_vars

\* The tracers of at most MaxPlanes planes: each plane has a blurred image
\* and has a pixelization or not.
FitTracers ==
    UNION { { [planes |-> [i \in 1..n |-> [blurred_image |-> f[i][1],
                                           has_pixelization |-> f[i][2]]]] :
                f \in [1..n -> BlurredImages \X BOOLEAN] } : n \in 0..MaxPlanes }

\* FitImaging(imaging, tracer)
FitImagingInit ==
    /\ Fresh
    /\ \E tracer \in FitTracers :
         /\ call' = [op |-> "FitImaging", tracer |-> tracer]
         /\ obj' = FitImagingNew(imaging_image, tracer)
    /\ UNCHANGED <<raised, ret>>

\* fit.model_images_of_planes
ModelImagesOfPlanes ==
    /\ Constructed("FitImaging")
    /\ ret' = ReturnedFrom("model_images_of_planes", model_images_of_planes(obj))
    /\ UNCHANGED <<call, obj, raised>>

\* fit.subtracted_images_of_planes
SubtractedImagesOfPlanes ==
    /\ Constructed("FitImaging")
    /\ ret' = ReturnedFrom("subtracted_images_of_planes", subtracted_images_of_planes(obj))
    /\ UNCHANGED <<call, obj, raised>>

NextFit == FitImagingInit \/ ModelImagesOfPlanes \/ SubtractedImagesOfPlanes

SpecFit == Init /\ [][NextFit]_vars

\* What the fits of the random instances do, for as many fits as two runs of
\* preload_fit_list_from_random_instances can make.
PreloadFits ==
    [1..(2 * MaxAttempts) -> {FitReturns(1), FitRaises("InversionException")}]

\* analysis.log_likelihood_function(instance)
LogLikelihoodFunction ==
    /\ Fresh
    /\ \E fits \in [1..2 -> FitOutcomes] :
         LET r == log_likelihood_function(fits)
         IN  /\ call' = [op |-> "log_likelihood_function", fits |-> fits]
             /\ obj' = [kind |-> "AnalysisImaging", fit_calls |-> r.fit_calls]
             /\ raised' = r.raised
             /\ ret' = IF r.raised = NoException
                       THEN ReturnedFrom("log_likelihood_function", r.value[1])
                       ELSE Nothing

\* analysis.preload_fit_list_from_random_instances(model)
PreloadFitListFromRandomInstances ==
    /\ Fresh
    /\ \E preload_attempts \in 1..MaxAttempts, fits \in PreloadFits :
         LET r == preload_fit_list_from_random_instances(preload_attempts, fits, 1)
         IN  /\ call' = [op |-> "preload_fit_list_from_random_instances",
                         preload_attempts |-> preload_attempts, fits |-> fits]
             /\ obj' = [kind |-> "AnalysisImaging", fit_calls |-> r.attempts]
             /\ raised' = r.raised
             /\ ret' = IF r.raised = NoException
                       THEN ReturnedFrom("preload_fit_list_from_random_instances", r.fit[1])
                       ELSE Nothing

\* analysis.set_preloads(paths, model)
SetPreloads ==
    /\ Fresh
    /\ \E ignore_prior_limits \in BOOLEAN, preload_attempts \in 1..MaxAttempts,
          unit_values_raise \in BOOLEAN, fits \in PreloadFits :
         LET r == set_preloads(ignore_prior_limits, preload_attempts,
                               unit_values_raise, fits)
         IN  /\ call' = [op |-> "set_preloads",
                         ignore_prior_limits |-> ignore_prior_limits,
                         preload_attempts |-> preload_attempts,
                         unit_values_raise |-> unit_values_raise, fits |-> fits]
             /\ obj' = [kind |-> "AnalysisImaging",
                        ignore_prior_limits |-> r.ignore_prior_limits,
                        preloads |-> r.preloads, summary |-> r.summary]
             /\ raised' = r.raised
             /\ UNCHANGED ret

NextAnalysis ==
    \/ LogLikelihoodFunction
    \/ PreloadFitListFromRandomInstances
    \/ SetPreloads

SpecAnalysis == Init /\ [][NextAnalysis]_vars

\* Prior.__init__ run by several threads.  The module holds the counter
\* prior_number; a thread in Prior.__init__ first binds self.id to the
\* counter, then loads the counter and then stores the value loaded plus one.
\* The interpreter may switch threads between any two of these steps.

MaxThreads == 2
MaxPriors == 4

\* import of the module: prior_number = 0, and the threads that will
\* construct priors
PriorModuleInit ==
    /\ Fresh
    /\ \E threads \in 1..MaxThreads :
         /\ call' = [op |-> "Prior", threads |-> threads]
         /\ obj' = [kind |-> "model_mapper",
                    prior_number |-> 0,
                    priors |-> <<>>,
                    threads |-> [t \in 1..threads |->
                                   [pc |-> "id", loaded |-> 0]]]
    /\ UNCHANGED <<raised, ret>>

\* self.id = prior_number, of a prior among the at most MaxPriors constructed
PriorBindId ==
    /\ Constructed("model_mapper")
    /\ Len(obj.priors) < MaxPriors
    /\ \E t \in 1..Len(obj.threads) :
         /\ obj.threads[t].pc = "id"
         /\ obj' = [obj EXCEPT !.priors = Append(@, [id |-> obj.prior_number]),
                               !.threads[t].pc = "load"]
    /\ UNCHANGED <<call, raised, ret>>

\* prior_number += 1: the counter is loaded
PriorLoadNumber ==
    /\ Constructed("model_mapper")
    /\ \E t \in 1..Len(obj.threads) :
         /\ obj.threads[t].pc = "load"
         /\ obj' = [obj EXCEPT !.threads[t].loaded = obj.prior_number,
                               !.threads[t].pc = "store"]
    /\ UNCHANGED <<call, raised, ret>>

\* prior_number += 1: the sum is stored; the thread goes on to its next prior
PriorStoreNumber ==
    /\ Constructed("model_mapper")
    /\ \E t \in 1..Len(obj.threads) :
         /\ obj.threads[t].pc = "store"
         /\ obj' = [obj EXCEPT !.prior_number = obj.threads[t].loaded + 1,
                               !.threads[t].pc = "id"]
    /\ UNCHANGED <<call, raised, ret>>

NextPrior == PriorModuleInit \/ PriorBindId \/ PriorLoadNumber \/ PriorStoreNumber

SpecPrior == Init /\ [][NextPrior]_vars

\* ModelMapper.  A class is given by the number of arguments of its
\* constructor; PriorModel makes one prior per argument, each taking the next
\* id of the module's counter.  A prior model is a name and the prior id of
\* each of its attributes; the mapper keeps its prior models in the order they
\* were set as attributes.

MaxNames == 2
MaxArguments == 2

Names == 1..MaxNames
Classes == 1..MaxArguments

\* PriorModel(cls, config)
PriorModelNew(cls, prior_number) ==
    [i \in 1..cls |-> prior_number + i - 1]

\* hasattr(self, name)
hasattr(prior_models, name) ==
    \E i \in 1..Len(prior_models) : prior_models[i].name = name

\* the priors of all prior models, equal priors (equal ids) once
prior_set(prior_models) ==
    UNION {{prior_models[i].priors[a] : a \in 1..Len(prior_models[i].priors)} :
              i \in 1..Len(prior_models)}

RECURSIVE sorted(_)
sorted(ids) ==
    IF ids = {} THEN <<>>
    ELSE LET least == CHOOSE id \in ids : \A other \in ids : id <= other
         IN  <<least>> \o sorted(ids \ {least})

priors_ordered_by_id(prior_models) == sorted(prior_set(prior_models))

\* add_class: the mapper after the call and the exception raised
add_class(mapper, name, cls) ==
    IF hasattr(mapper.prior_models, name)
    THEN [raised |-> "PriorException", mapper |-> mapper]
    ELSE [raised |-> NoException,
          mapper |-> [mapper EXCEPT
                        !.prior_models =
                            Append(@, [name |-> name,
                                       priors |-> PriorModelNew(cls, mapper.prior_number)]),
                        !.prior_number = @ + cls]]

\* for name, cls in classes.items(): self.add_class(name, cls)
RECURSIVE add_class_loop(_, _)
add_class_loop(mapper, classes) ==
    IF classes = <<>> THEN [raised |-> NoException, mapper |-> mapper]
    ELSE LET r == add_class(mapper, Head(classes).name, Head(classes).cls)
         IN  IF r.raised # NoException THEN r
             ELSE add_class_loop(r.mapper, Tail(classes))

\* ModelMapper(config, **classes)
ModelMapperNew(classes) ==
    LET r == add_class_loop([kind |-> "ModelMapper", prior_models |-> <<>>,
                             prior_number |-> 0, total_parameters |-> 0], classes)
    IN  [r EXCEPT !.mapper.total_parameters =
                      Len(priors_ordered_by_id(r.mapper.prior_models))]

\* add_classes(**kwargs)
add_classes(mapper, kwargs) ==
    LET r == add_class_loop(mapper, kwargs)
    IN  IF r.raised # NoException THEN r
        ELSE [r EXCEPT !.mapper.total_parameters =
                           Len(priors_ordered_by_id(r.mapper.prior_models))]

\* collection.<m>.<a> = collection.<n>.<b>
tie_prior(mapper, m, a, n, b) ==
    [mapper EXCEPT !.prior_models[m].priors[a] = mapper.prior_models[n].priors[b]]

\* instance_from_unit_vector: map pairs the ordered priors with the units up
\* to the shorter of the two; instance_for_arguments then looks up every prior
\* of every prior model
instance_from_unit_vector(mapper, unit_vector) ==
    LET priors == priors_ordered_by_id(mapper.prior_models)
        paired == IF Len(priors) < Len(unit_vector) THEN Len(priors) ELSE Len(unit_vector)
        arguments == [i \in 1..paired |-> [prior |-> priors[i], unit |-> unit_vector[i]]]
        value(prior) == LET i == CHOOSE i \in 1..paired : arguments[i].prior = prior
                        IN  arguments[i].unit
    IN  IF paired < Len(priors)
        THEN [raised |-> "KeyError", instance |-> <<>>, consumed |-> paired]
        ELSE [raised |-> NoException,
              instance |-> [m \in 1..Len(mapper.prior_models) |->
                              [name |-> mapper.prior_models[m].name,
                               arguments |-> [a \in 1..Len(mapper.prior_models[m].priors) |->
                                                value(mapper.prior_models[m].priors[a])]]],
              consumed |-> paired]

\* keyword arguments: distinct names, in the order given
KeywordArguments ==
    {<<>>} \cup {<<[name |-> n, cls |-> k]>> : n \in Names, k \in Classes}
           \cup {kwargs \in {<<[name |-> n, cls |-> k], [name |-> o, cls |-> l]>> :
                                n \in Names, o \in Names, k \in Classes, l \in Classes} :
                    kwargs[1].name # kwargs[2].name}

IsModelMapper == obj # Nothing /\ obj.kind = "ModelMapper"

ModelMapperInit ==
    /\ Fresh
    /\ \E classes \in KeywordArguments :
         LET r == ModelMapperNew(classes)
         IN  /\ call' = [op |-> "ModelMapper", classes |-> classes]
             /\ obj' = r.mapper
             /\ raised' = r.raised
             /\ UNCHANGED ret

AddClass ==
    /\ IsModelMapper
    /\ \E name \in Names, cls \in Classes :
         LET r == add_class(obj, name, cls)
         IN  /\ call' = [op |-> "add_class", name |-> name, cls |-> cls]
             /\ obj' = r.mapper
             /\ raised' = r.raised
             /\ ret' = Nothing

AddClasses ==
    /\ IsModelMapper
    /\ \E kwargs \in KeywordArguments :
         LET r == add_classes(obj, kwargs)
         IN  /\ call' = [op |-> "add_classes", kwargs |-> kwargs]
             /\ obj' = r.mapper
             /\ raised' = r.raised
             /\ ret' = Nothing

TiePrior ==
    /\ IsModelMapper
    /\ \E m, n \in 1..Len(obj.prior_models) :
         \E a \in 1..Len(obj.prior_models[m].priors),
            b \in 1..Len(obj.prior_models[n].priors) :
             /\ call' = [op |-> "tie", m |-> m, a |-> a, n |-> n, b |-> b]
             /\ obj' = tie_prior(obj, m, a, n, b)
             /\ raised' = NoException
             /\ ret' = Nothing

\* a caller passes a unit vector of total_parameters units
InstanceFromUnitVector ==
    /\ IsModelMapper
    /\ LET r == instance_from_unit_vector(obj, [i \in 1..obj.total_parameters |-> i])
       IN  /\ call' = [op |-> "instance_from_unit_vector"]
           /\ raised' = r.raised
           /\ ret' = ReturnedFrom("instance_from_unit_vector",
                                  [instance |-> r.instance, consumed |-> r.consumed])
           /\ UNCHANGED obj

NextMapper ==
    \/ ModelMapperInit
    \/ AddClass
    \/ AddClasses
    \/ TiePrior
    \/ InstanceFromUnitVector

SpecMapper == Init /\ [][NextMapper]_vars

\* tracer.blurred_image_2d_from_grid_and_convolver: the blurred light of all
\* planes of the tracer on the pixels of the data image.
blurred_image_2d(tracer) ==
    SumArrays([i \in 1..Len(tracer.planes) |-> tracer.planes[i].blurred_image],
              imaging_image)

\* The model image FitImaging.__init__ hands to the fit: the blurred image,
\* and the reconstructed image of the inversion added once when the tracer
\* has a pixelization.
model_image(fit) ==
    IF fit.inversion = None
    THEN blurred_image_2d(fit.tracer)
    ELSE AddArrays(blurred_image_2d(fit.tracer),
                   fit.inversion[1].mapped_reconstructed_image)

\* FitImaging.galaxy_model_image_dict.  The planes of the tracer list their
\* galaxies; a galaxy is known by its plane and its place in the plane's
\* list, and has the blurred image of its light profiles and possibly a
\* pixelization.  At most one galaxy of a plane has a pixelization.

MaxPlaneGalaxies == 2

GalaxyBlurredImages == {<<0, 0>>, <<1, 2>>}

FitGalaxies == [blurred_image : GalaxyBlurredImages, has_pixelization : BOOLEAN]

FitPlanes ==
    {[galaxies |-> galaxies,
      has_pixelization |-> \E g \in 1..Len(galaxies) : galaxies[g].has_pixelization] :
        galaxies \in {galaxies \in UNION {[1..n -> FitGalaxies] : n \in 1..MaxPlaneGalaxies} :
                        \A g, h \in 1..Len(galaxies) :
                            (galaxies[g].has_pixelization /\ galaxies[h].has_pixelization)
                                => g = h}}

FitGalaxyTracers ==
    {[planes |-> planes] : planes \in UNION {[1..n -> FitPlanes] : n \in 1..MaxPlanes}}

\* The galaxies of the tracer: plane index and place in the plane's list.
GalaxiesOfTracer(tracer) ==
    {key \in (1..Len(tracer.planes)) \X (1..MaxPlaneGalaxies) :
        key[2] <= Len(tracer.planes[key[1]].galaxies)}

\* tracer.galaxy_blurred_image_dict_from_grid_and_convolver: every galaxy of
\* the tracer with the blurred image of its light profiles.
galaxy_blurred_image_dict(tracer) ==
    [key \in GalaxiesOfTracer(tracer) |->
        tracer.planes[key[1]].galaxies[key[2]].blurred_image]

\* for plane_index in plane_indexes_with_pixelizations: the entry of the
\* first galaxy of the plane is set to the reconstructed image
RECURSIVE update_with_reconstructed_image(_, _, _)
update_with_reconstructed_image(dict, fit, plane_index) ==
    IF plane_index > Len(fit.tracer.planes) THEN dict
    ELSE update_with_reconstructed_image(
             IF plane_index \in plane_indexes_with_pixelizations(fit.tracer)
             THEN [dict EXCEPT ![<<plane_index, 1>>] =
                                   fit.inversion[1].mapped_reconstructed_image]
             ELSE dict,
             fit, plane_index + 1)

\* FitImaging.galaxy_model_image_dict
galaxy_model_image_dict(fit) ==
    update_with_reconstructed_image(galaxy_blurred_image_dict(fit.tracer), fit, 1)

\* FitImaging(imaging, tracer) of a tracer given with its galaxies
FitImagingOfGalaxiesInit ==
    /\ Fresh
    /\ \E tracer \in FitGalaxyTracers :
         /\ call' = [op |-> "FitImaging", tracer |-> tracer]
         /\ obj' = FitImagingNew(imaging_image, tracer)
    /\ UNCHANGED <<raised, ret>>

\* fit.galaxy_model_image_dict
GalaxyModelImageDict ==
    /\ Constructed("FitImaging")
    /\ ret' = ReturnedFrom("galaxy_model_image_dict", galaxy_model_image_dict(obj))
    /\ UNCHANGED <<call, obj, raised>>

NextFitGalaxies == FitImagingOfGalaxiesInit \/ GalaxyModelImageDict

SpecFitGalaxies == Init /\ [][NextFitGalaxies]_vars

----------------------------------------------------------------------------
\* Properties.

Grids == {"image", "sub", "blurring"}

\* The planes of a constructed tracer, in order.
PlanesOf(o) ==
    IF o.kind = "MultiTracer" THEN o.planes
    ELSE IF o.kind = "Tracer" THEN <<o.image_plane, o.source_plane>>
    ELSE <<>>

RedshiftsOf(galaxies) == {galaxies[k].redshift : k \in 1..Len(galaxies)}

IdsOf(galaxies) == [k \in 1..Len(galaxies) |-> galaxies[k].id]

\* Some galaxies of the list have a redshift and others have none.
MixedRedshifts(galaxies) ==
    None \in RedshiftsOf(galaxies) /\ RedshiftsOf(galaxies) # {None}

\* C1: constructing a Plane from galaxies that do not all share one redshift
\* raises RayTracingException, so the galaxies of a constructed Plane all
\* have the same redshift.
C1_HeterogeneousPlaneRaises ==
    (call.op = "Plane" /\ Cardinality(RedshiftsOf(call.galaxies)) > 1)
        => (raised = "RayTracingException" /\ obj = Nothing)

\* C2: a Plane, Tracer or MultiTracer constructed with no galaxies raises
\* RayTracingException.
C2_NoGalaxiesRaises ==
    (call.op \in {"Plane", "Tracer", "MultiTracer"} /\ Len(call.galaxies) = 0)
        => (raised = "RayTracingException" /\ obj = Nothing)

\* C3: the plane redshifts of a constructed MultiTracer are strictly
\* increasing and are exactly the redshifts of the galaxies given, and the
\* galaxies of one redshift are all in the plane of that redshift.
C3_PlaneRedshiftsStrictlyIncreasing ==
    obj.kind = "MultiTracer" =>
        LET order == obj.planes_redshift_order
        IN  /\ \A i \in 1..(Len(order) - 1) :
                 /\ order[i] # None /\ order[i + 1] # None
                 /\ order[i][1] < order[i + 1][1]
            /\ {order[i] : i \in 1..Len(order)} = RedshiftsOf(call.galaxies)
            /\ Len(obj.planes) = Len(order)
            /\ \A i \in 1..Len(order) :
                 /\ RedshiftsOf(obj.planes[i].galaxies) = {order[i]}
                 /\ Len(obj.planes[i].galaxies) =
                        Cardinality({k \in 1..Len(call.galaxies) :
                                        call.galaxies[k].redshift = order[i]})

\* Three galaxies given out of redshift order, two of them of one redshift.
C3_Witness ==
    /\ obj.kind = "MultiTracer"
    /\ Len(call.galaxies) = 3
    /\ Cardinality(RedshiftsOf(call.galaxies)) = 2
    /\ \E j, k \in 1..3 : j < k /\ call.galaxies[j].redshift[1] > call.galaxies[k].redshift[1]

\* C4: within each plane of a MultiTracer the galaxies are in the order in
\* which they were given; galaxies of redshifts 2, 1, 2 make the planes
\* <<second>> and <<first, third>>.
C4_PlaneGalaxiesInInputOrder ==
    obj.kind = "MultiTracer" =>
        /\ \A i \in 1..Len(obj.planes) :
             /\ obj.planes[i].galaxies = obj.planes_galaxies[i]
             /\ \A j, k \in 1..Len(obj.planes[i].galaxies) :
                  j < k => obj.planes[i].galaxies[j].id < obj.planes[i].galaxies[k].id
        /\ [k \in 1..Len(call.galaxies) |-> call.galaxies[k].redshift]
              = <<Some(2), Some(1), Some(2)>>
           => [i \in 1..Len(obj.planes) |-> IdsOf(obj.planes[i].galaxies)]
                 = << <<2>>, <<1, 3>> >>

C4_Witness ==
    /\ obj.kind = "MultiTracer"
    /\ [k \in 1..Len(call.galaxies) |-> call.galaxies[k].redshift]
          = <<Some(2), Some(1), Some(2)>>
    /\ call.galaxies[1].mass_profiles # call.galaxies[3].mass_profiles

\* C5: in a constructed tracer, on each grid, every point of plane i+1 is the
\* point of plane i minus the deflection of plane i there, and that
\* deflection is the one of plane i's own galaxies on plane i's own grid.
C5_NextGridIsGridMinusOwnDeflection ==
    LET planes == PlanesOf(obj)
    IN  \A i \in 1..(Len(planes) - 1) :
          /\ planes[i].deflections # None
          /\ \A grid \in Grids :
               LET here == planes[i].masked_image[grid]
                   there == planes[i + 1].masked_image[grid]
                   own == deflections_from_grid(here, planes[i].galaxies)
               IN  /\ planes[i].deflections[1][grid] = own
                   /\ Len(there) = Len(here)
                   /\ \A k \in 1..Len(here) :
                        /\ there[k][1] = here[k][1] - own[k][1]
                        /\ there[k][2] = here[k][2] - own[k][2]

\* Three planes, the first two of which deflect somewhere on the image grid.
C5_Witness ==
    /\ obj.kind = "MultiTracer"
    /\ Len(obj.planes) = 3
    /\ \A i \in 1..2 : \E k \in 1..Len(obj.planes[i].masked_image.image) :
         obj.planes[i].deflections[1].image[k] # <<0, 0>>

\* C6: in a constructed tracer a plane has deflections if and only if it is
\* not the last plane, and was built with compute_deflections accordingly.
C6_DeflectionsExceptLastPlane ==
    LET planes == PlanesOf(obj)
    IN  \A i \in 1..Len(planes) :
          /\ (planes[i].deflections # None) <=> (i < Len(planes))
          /\ planes[i].compute_deflections <=> (i < Len(planes))

C6_Witness ==
    /\ obj.kind = "MultiTracer"
    /\ Len(obj.planes) = 3
    /\ obj.planes[2].deflections # None
    /\ obj.planes[3].deflections = None

\* C7: a MultiTracer given galaxies without a redshift is constructed, with
\* those galaxies together in one plane.  Stated for galaxies of two or more
\* redshifts (None being one), where construction does not stop for want of
\* a second plane.
C7_NoRedshiftGalaxiesMakeOnePlane ==
    (/\ call.op = "MultiTracer"
     /\ None \in RedshiftsOf(call.galaxies)
     /\ Cardinality(RedshiftsOf(call.galaxies)) > 1)
        => /\ raised = NoException
           /\ obj.kind = "MultiTracer"
           /\ Cardinality({i \in 1..Len(obj.planes) :
                             None \in RedshiftsOf(obj.planes[i].galaxies)}) = 1

\* C8: galaxies of which some have a redshift and some have none, given
\* with a cosmology, raise RayTracingException.
C8_MixedRedshiftsWithCosmologyRaise ==
    (/\ call.op \in {"Plane", "MultiTracer"}
     /\ call.cosmology # None
     /\ MixedRedshifts(call.galaxies))
        => raised = "RayTracingException"

\* C9: for every non-empty list of galaxies (here: galaxies that all have a
\* redshift) a MultiTracer is constructed, with one plane per distinct
\* redshift.
C9_NonEmptyGalaxiesMakePlanes ==
    (/\ call.op = "MultiTracer"
     /\ Len(call.galaxies) > 0
     /\ None \notin RedshiftsOf(call.galaxies))
        => /\ raised = NoException
           /\ obj.kind = "MultiTracer"
           /\ Len(obj.planes) > 0
           /\ Len(obj.planes) = Cardinality(RedshiftsOf(call.galaxies))

\* The plane that a pixelization lookup on the object reads.
LookupPlane == IF obj.kind = "Tracer" THEN obj.source_plane ELSE obj

LookedUp == obj.kind \in {"Plane", "Tracer"} /\ (ret # Nothing \/ raised # NoException)

\* C10: the pixelization lookup of a plane returns None when no galaxy of the
\* plane has a pixelization, the inversion of the one galaxy that has, where
\* ever it is in the list, and raises PixelizationException when two or more
\* have.
C10_PixelizationLookup ==
    LookedUp =>
        LET galaxies == LookupPlane.galaxies
            pixelized == {k \in 1..Len(galaxies) : galaxies[k].has_pixelization}
        IN  /\ Cardinality(pixelized) = 0 =>
                 raised = NoException /\ ret = Returned(None)
            /\ Cardinality(pixelized) = 1 =>
                 /\ raised = NoException
                 /\ ret.kind = "returned"
                 /\ ret.value # None
                 /\ \A k \in pixelized : ret.value[1].pixelization_of = galaxies[k].id
            /\ Cardinality(pixelized) > 1 =>
                 raised = "PixelizationException" /\ ret = Nothing

\* The only pixelized galaxy is the last of three.
C10_Witness ==
    /\ LookedUp
    /\ obj.kind = "Plane"
    /\ Len(obj.galaxies) = 3
    /\ {k \in 1..3 : obj.galaxies[k].has_pixelization} = {3}
    /\ ret.kind = "returned"

\* The sum of f over the finite set S of its arguments.
RECURSIVE SumSet(_, _)
SumSet(S, f) ==
    IF S = {} THEN 0
    ELSE LET x == CHOOSE y \in S : TRUE IN f[x] + SumSet(S \ {x}, f)

\* A call of method on an object of the given kind has returned.
ReturnedBy(kind, method) ==
    /\ obj # Nothing /\ obj.kind = kind
    /\ ret # Nothing /\ ret.method = method

\* The summed intensity of all light profiles of all galaxies at point p.
GalaxyIntensityAt(galaxies, p) ==
    LET profiles == {<<g, l>> \in (1..Len(galaxies)) \X (1..2) :
                        l <= Len(galaxies[g].light_profiles)}
    IN  SumSet(profiles,
               [gl \in profiles |->
                  intensities_of_profile(galaxies[gl[1]].light_profiles[gl[2]], p)])

\* The sub-grid points that the mapping assigns to a pixel.
SubPointsOf(pixel) ==
    {k \in 1..Len(data_mapping.sub_to_image) : data_mapping.sub_to_image[k] = pixel}

\* The fraction v is the mean of the summed galaxy intensities over the
\* sub-grid points of the pixel: v * sub_grid_size^2 = the sum.
IsMeanOverSubPoints(v, galaxies, sub, pixel) ==
    /\ v[2] > 0
    /\ v[1] * (data_mapping.sub_grid_size * data_mapping.sub_grid_size)
         = v[2] * SumSet(SubPointsOf(pixel),
                         [k \in SubPointsOf(pixel) |-> GalaxyIntensityAt(galaxies, sub[k])])

\* C11: for every regular pixel p, the image value of a plane at p is the
\* arithmetic mean (the sum divided by sub_grid_size squared, not the sum) of
\* the summed galaxy intensities at exactly the sub-grid points that the
\* sub-to-regular mapping assigns to p.
C11_PlaneImageIsSubGridMean ==
    ReturnedBy("Plane", "generate_image_of_galaxy_light_profiles") =>
        /\ DOMAIN ret.value = 1..data_mapping.image_pixels
        /\ \A pixel \in 1..data_mapping.image_pixels :
             IsMeanOverSubPoints(ret.value[pixel], obj.galaxies,
                                 obj.masked_image.sub, pixel)

\* A plane of two galaxies, one with a profile that depends on the point and
\* one with a constant profile, has returned an image: the sub-grid sums are
\* 16 + 4 and 36 + 4, the pixel values 5 and 10.
C11_Witness ==
    /\ ReturnedBy("Plane", "generate_image_of_galaxy_light_profiles")
    /\ Len(obj.galaxies) = 2
    /\ obj.galaxies[1].light_profiles = <<RadialProfile(1)>>
    /\ obj.galaxies[2].light_profiles = <<ConstantProfile(1)>>
    /\ ret.value = <<Frac(5, 1), Frac(10, 1)>>

\* The plane built from the galaxies alone, with the arguments of the call.
PlaneOfGalaxies(galaxies) ==
    PlaneNew(galaxies, data_grid_stack_1, None, None, call.cosmology,
             call.compute_deflections).plane

\* The mapping of a grid with sub_grid_size 1: every regular pixel is its own
\* single sub-grid point.
regular_mapping ==
    [sub_grid_size |-> 1, image_pixels |-> 2, sub_to_image |-> <<1, 2>>]

\* C12: plane images are additive over galaxies: the image of Plane([g0, g1])
\* equals, pixel by pixel, the image of Plane([g0]) plus the image of
\* Plane([g1]) on the same grid; constant intensities 1 and 2 on the two
\* regular pixels give [3, 3], with sub_grid_size 2 and with sub_grid_size 1.
C12_PlaneImageAdditive ==
    (ReturnedBy("Plane", "generate_image_of_galaxy_light_profiles")
        /\ Len(obj.galaxies) = 2) =>
        LET g0 == obj.galaxies[1]
            g1 == obj.galaxies[2]
        IN  /\ ret.value =
                 AddImages(
                   generate_image_of_galaxy_light_profiles(PlaneOfGalaxies(<<g0>>), data_mapping),
                   generate_image_of_galaxy_light_profiles(PlaneOfGalaxies(<<g1>>), data_mapping))
            /\ (g0.light_profiles = <<ConstantProfile(1)>>
                  /\ g1.light_profiles = <<ConstantProfile(2)>>)
                 => /\ ret.value = <<Frac(3, 1), Frac(3, 1)>>
                    /\ intensities_via_grid(obj.masked_image.image, obj.galaxies,
                                            Some(regular_mapping))
                         = <<Frac(3, 1), Frac(3, 1)>>

\* A plane of a galaxy of constant intensity 1 and one of constant intensity 2
\* has returned the image [3, 3].
C12_Witness ==
    /\ ReturnedBy("Plane", "generate_image_of_galaxy_light_profiles")
    /\ Len(obj.galaxies) = 2
    /\ obj.galaxies[1].light_profiles = <<ConstantProfile(1)>>
    /\ obj.galaxies[2].light_profiles = <<ConstantProfile(2)>>
    /\ ret.value = <<Frac(3, 1), Frac(3, 1)>>

\* The sum over the plane's galaxies, and over each galaxy's mass profiles,
\* of the profile deflection at point p.
GalaxyDeflectionAt(galaxies, p) ==
    LET profiles == {<<g, m>> \in (1..Len(galaxies)) \X (1..2) :
                        m <= Len(galaxies[g].mass_profiles)}
        d(gm) == deflections_of_profile(galaxies[gm[1]].mass_profiles[gm[2]], p)
    IN  <<SumSet(profiles, [gm \in profiles |-> d(gm)[1]]),
          SumSet(profiles, [gm \in profiles |-> d(gm)[2]])>>

\* A constructed plane that computed its deflections.
DeflectingPlane ==
    /\ obj # Nothing /\ obj.kind = "Plane" /\ call.op = "Plane"
    /\ obj.deflections # None

\* The galaxies are one galaxy with two profiles of einstein radius 1, or two
\* galaxies with one such profile each.
TwoCopies(galaxies) ==
    \/ Len(galaxies) = 1 /\ galaxies[1].mass_profiles = <<1, 1>>
    \/ /\ Len(galaxies) = 2
       /\ galaxies[1].mass_profiles = <<1>> /\ galaxies[2].mass_profiles = <<1>>

\* The deflections of the plane of one galaxy with one profile of einstein
\* radius 1, built with the arguments of the call.
OneCopyDeflections ==
    PlaneOfGalaxies(<<Galaxy(1, obj.galaxies[1].redshift, <<1>>, FALSE)>>).deflections[1]

\* C13: the deflection of a plane at every point of the regular, sub and
\* blurring grids is the sum over the plane's galaxies, and over each galaxy's
\* mass profiles, of the profile deflection at that point; a plane with one
\* galaxy of two identical mass profiles, or with two identical single-profile
\* galaxies, has exactly twice the deflection of a plane with one copy.
C13_DeflectionIsSumOverGalaxiesAndProfiles ==
    DeflectingPlane =>
        /\ \A grid \in Grids :
             /\ DOMAIN obj.deflections[1][grid] = DOMAIN obj.masked_image[grid]
             /\ \A k \in DOMAIN obj.masked_image[grid] :
                  obj.deflections[1][grid][k]
                    = GalaxyDeflectionAt(obj.galaxies, obj.masked_image[grid][k])
        /\ TwoCopies(obj.galaxies) =>
             \A grid \in Grids : \A k \in DOMAIN obj.masked_image[grid] :
                obj.deflections[1][grid][k]
                  = <<2 * OneCopyDeflections[grid][k][1],
                      2 * OneCopyDeflections[grid][k][2]>>

\* A plane of one galaxy with two mass profiles was built and deflects by 2
\* along each axis at the first regular pixel.
C13_Witness ==
    /\ DeflectingPlane
    /\ Len(obj.galaxies) = 1 /\ obj.galaxies[1].mass_profiles = <<1, 1>>
    /\ obj.deflections[1].image[1] = <<2, 2>>

\* No galaxy of the list has a mass profile.
NoMassProfile(galaxies) ==
    \A g \in 1..Len(galaxies) : galaxies[g].mass_profiles = <<>>

\* plane.trace_to_next_plane() has returned.
Traced ==
    /\ obj # Nothing /\ obj.kind = "Plane"
    /\ ret # Nothing /\ DOMAIN ret = DOMAIN Returned(Nothing)

\* An array of one zero per point of the grid.
ZeroArray(array, grid) ==
    DOMAIN array = DOMAIN grid /\ \A k \in DOMAIN grid : array[k] = 0

\* C14: when no galaxy of a plane has a mass profile, the deflection stack
\* computed for the plane is the zero field on all three grids, the traced
\* grid equals the plane's own grid, surface density and potential are
\* all-zero arrays, and none of these raises an error.
C14_NoMassProfileZeroField ==
    (obj # Nothing /\ obj.kind = "Plane" /\ NoMassProfile(obj.galaxies)) =>
        /\ obj.deflections # None =>
             \A grid \in Grids :
                /\ DOMAIN obj.deflections[1][grid] = DOMAIN obj.masked_image[grid]
                /\ \A k \in DOMAIN obj.masked_image[grid] :
                     obj.deflections[1][grid][k] = <<0, 0>>
        /\ Traced => ret.value = obj.masked_image
        /\ (obj.deflections # None /\ ret # Nothing) => raised = NoException
        /\ (ret # Nothing /\ ~Traced) =>
             /\ ret.method \in {"surface_density_from_grid", "potential_from_grid"}
             /\ ZeroArray(ret.value, obj.masked_image.image)
             /\ raised = NoException

\* A plane of galaxies without mass profiles computed its deflections and was
\* traced: the grid returned is the plane's own.
C14_Witness ==
    /\ Traced
    /\ Len(obj.galaxies) = 2 /\ NoMassProfile(obj.galaxies)
    /\ obj.deflections # None
    /\ ret.value = obj.masked_image
    /\ raised = NoException

\* The element-wise sum of the first n images of a list, over a number of pixels.
RECURSIVE SumImages(_, _, _)
SumImages(images, n, pixels) ==
    IF n = 0 THEN [pixel \in 1..pixels |-> Frac(0, 1)]
    ELSE AddImages(SumImages(images, n - 1, pixels), images[n])

\* C15: image_plane_image_1d_of_galaxies has exactly one array per galaxy of
\* the plane, in the plane's galaxy order, entry i being the sub-grid-averaged
\* image of galaxy i alone; the element-wise sum of the entries equals the
\* image of the plane.
C15_ImageOfGalaxiesPerGalaxy ==
    ReturnedBy("Plane", "image_plane_image_1d_of_galaxies") =>
        /\ DOMAIN ret.value = 1..Len(obj.galaxies)
        /\ \A i \in 1..Len(obj.galaxies) :
             /\ DOMAIN ret.value[i] = 1..data_mapping.image_pixels
             /\ \A pixel \in 1..data_mapping.image_pixels :
                  IsMeanOverSubPoints(ret.value[i][pixel], <<obj.galaxies[i]>>,
                                      obj.masked_image.sub, pixel)
        /\ SumImages(ret.value, Len(obj.galaxies), data_mapping.image_pixels)
             = generate_image_of_galaxy_light_profiles(obj, data_mapping)

\* The images of a plane of three galaxies with different light were
\* returned: [4, 9] for the profile that depends on the point, [2, 2] for the
\* constant one and [0, 0] for the galaxy without light.
C15_Witness ==
    /\ ReturnedBy("Plane", "image_plane_image_1d_of_galaxies")
    /\ Len(obj.galaxies) = 3
    /\ obj.galaxies[1].light_profiles = <<RadialProfile(1)>>
    /\ obj.galaxies[2].light_profiles = <<ConstantProfile(2)>>
    /\ obj.galaxies[3].light_profiles = <<>>
    /\ ret.value = << <<Frac(4, 1), Frac(9, 1)>>, <<Frac(2, 1), Frac(2, 1)>>,
                      <<Frac(0, 1), Frac(0, 1)>> >>

\* The summed galaxy intensity of all planes at the sub-grid points of a
\* pixel, each plane evaluated on its own sub-grid.
PlanesIntensityOfPixel(planes, pixel) ==
    LET points == (1..Len(planes)) \X SubPointsOf(pixel)
    IN  SumSet(points,
               [ik \in points |->
                  GalaxyIntensityAt(planes[ik[1]].galaxies,
                                    planes[ik[1]].masked_image.sub[ik[2]])])

\* The summed galaxy intensity of all planes at point k of the blurring grid,
\* each plane evaluated on its own blurring grid.
PlanesBlurringIntensity(planes, k) ==
    SumSet(1..Len(planes),
           [i \in 1..Len(planes) |->
              GalaxyIntensityAt(planes[i].galaxies, planes[i].masked_image.blurring[k])])

\* C16: the tracer's composite image equals the element-wise sum over its
\* planes (image plane plus source plane) of each plane's image, and the
\* tracer's blurring image equals the sum over its planes of each plane's
\* blurring-grid image.
C16_TracerImageIsSumOfPlaneImages ==
    /\ ReturnedBy("Tracer", "generate_image_of_galaxy_light_profiles") =>
         /\ ret.value =
              SumImages([i \in 1..Len(PlanesOf(obj)) |->
                           generate_image_of_galaxy_light_profiles(PlanesOf(obj)[i],
                                                                   data_mapping)],
                        Len(PlanesOf(obj)), data_mapping.image_pixels)
         /\ \A pixel \in 1..data_mapping.image_pixels :
              /\ ret.value[pixel][2] > 0
              /\ ret.value[pixel][1]
                    * (data_mapping.sub_grid_size * data_mapping.sub_grid_size)
                   = ret.value[pixel][2] * PlanesIntensityOfPixel(PlanesOf(obj), pixel)
    /\ ReturnedBy("Tracer", "generate_blurring_image_of_galaxy_light_profiles") =>
         /\ DOMAIN ret.value = DOMAIN data_grid_stack_1.blurring
         /\ \A k \in DOMAIN ret.value :
              ret.value[k] = <<PlanesBlurringIntensity(PlanesOf(obj), k), 1>>

\* A tracer whose lens galaxy has mass and constant light and whose source
\* galaxy has light that depends on the point returned its image: 1 + 10/4
\* and 1 + 28/4.
C16_Witness ==
    /\ ReturnedBy("Tracer", "generate_image_of_galaxy_light_profiles")
    /\ Len(obj.image_plane.galaxies) = 1 /\ Len(obj.source_plane.galaxies) = 1
    /\ obj.image_plane.galaxies[1].mass_profiles = <<1>>
    /\ obj.image_plane.galaxies[1].light_profiles = <<ConstantProfile(1)>>
    /\ obj.source_plane.galaxies[1].light_profiles = <<RadialProfile(1)>>
    /\ ret.value = <<Frac(7, 2), Frac(8, 1)>>

\* The constructor call of the state repeated with another cosmology.
Rebuilt(cosmology) ==
    IF call.op = "MultiTracer"
    THEN LET r == MultiTracerNew(call.galaxies, data_grid_stack_1, cosmology)
         IN  [raised |-> r.raised, object |-> r.tracer]
    ELSE IF call.op = "Tracer"
    THEN LET r == TracerNew(call.lens_galaxies, call.source_galaxies,
                            data_grid_stack_1, cosmology)
         IN  [raised |-> r.raised, object |-> r.tracer]
    ELSE LET r == PlaneNew(call.galaxies, data_grid_stack_1, None, None, cosmology,
                           call.compute_deflections)
         IN  [raised |-> r.raised, object |-> r.plane]

\* The planes of a constructed object: of a tracer, or the plane itself.
AllPlanesOf(o) == IF o.kind = "Plane" THEN <<o>> ELSE PlanesOf(o)

\* The grids and the deflection field of every plane of an object.
PropagatedGrids(o) ==
    [i \in 1..Len(AllPlanesOf(o)) |->
        [masked_image |-> AllPlanesOf(o)[i].masked_image,
         deflections |-> AllPlanesOf(o)[i].deflections]]

\* C17: for fixed galaxies and input grid, the grid assigned to every plane
\* and every plane's deflection field are identical whether the tracer is
\* built with a cosmology or with cosmology=None: the cosmological scalars
\* never influence the propagated grids.
C17_CosmologyDoesNotChangeGrids ==
    (obj # Nothing /\ ret = Nothing) =>
        \A cosmology \in Cosmologies \ {call.cosmology} :
            Rebuilt(cosmology).raised = NoException =>
                PropagatedGrids(Rebuilt(cosmology).object) = PropagatedGrids(obj)

\* A MultiTracer of three planes was built with a cosmology, its first two
\* planes deflect, and the same call without a cosmology succeeds too.
C17_Witness ==
    /\ obj # Nothing /\ obj.kind = "MultiTracer" /\ call.cosmology # None
    /\ Len(obj.planes) = 3
    /\ obj.planes[1].deflections[1].image[1] # <<0, 0>>
    /\ obj.planes[2].deflections[1].image[1] # <<0, 0>>
    /\ obj.planes[3].masked_image # obj.planes[2].masked_image
    /\ obj.planes[1].critical_density_kpc # None
    /\ Rebuilt(None).raised = NoException
    /\ Rebuilt(None).object # obj

\* The planes of the same call in the model without addresses.
PlanesByValue ==
    MultiTracerNew(call.galaxies, data_grid_stack_1, call.cosmology).tracer.planes

\* C18: building a tracer and tracing to the next plane never changes the
\* caller's input grid stack: after all planes are built, and after a further
\* trace, the first plane's grid stack still equals the original input point
\* for point, and each traced grid stack is a new collection distinct from
\* the one it was traced from, which keeps its points.
C18_TracingLeavesInputGridUnchanged ==
    (obj # Nothing /\ obj.kind = "MultiTracerOnHeap") =>
        /\ obj.heap[obj.masked_image] = data_grid_stack_1
        /\ obj.planes # <<>> => obj.heap[obj.planes[1].masked_image] = data_grid_stack_1
        /\ \A i \in 1..Len(obj.planes) :
             obj.heap[obj.planes[i].masked_image] = PlanesByValue[i].masked_image
        /\ \A i \in 1..(Len(obj.planes) - 1) :
             /\ obj.planes[i + 1].masked_image # obj.planes[i].masked_image
             /\ obj.planes[i + 1].masked_image # obj.masked_image
             /\ obj.heap[obj.planes[i + 1].masked_image]
                  = traced_masked_image_for_deflections(
                        obj.heap[obj.planes[i].masked_image],
                        obj.heap[obj.planes[i].deflections[1]])
        /\ ret # Nothing =>
             /\ ret.value.address # obj.planes[ret.value.plane].masked_image
             /\ \A i \in 1..Len(obj.planes) :
                  ret.value.address # obj.planes[i].masked_image
             /\ obj.heap[ret.value.address]
                  = traced_masked_image_for_deflections(
                        obj.heap[obj.planes[ret.value.plane].masked_image],
                        obj.heap[obj.planes[ret.value.plane].deflections[1]])

\* A tracer of three planes was built, its first plane displaces the grid,
\* and its second plane was traced once more.
C18_Witness ==
    /\ obj # Nothing /\ obj.kind = "MultiTracerOnHeap"
    /\ Len(obj.planes) = 3
    /\ obj.heap[obj.planes[2].masked_image] # data_grid_stack_1
    /\ obj.heap[obj.planes[3].masked_image] # obj.heap[obj.planes[2].masked_image]
    /\ ret # Nothing /\ ret.value.plane = 2
    /\ obj.heap[ret.value.address] = obj.heap[obj.planes[3].masked_image]

\* The model image of plane j at a pixel: its blurred image, plus the
\* reconstructed image when the plane has a pixelization.
ModelImageAt(fit, j, pixel) ==
    fit.tracer.planes[j].blurred_image[pixel]
      + (IF fit.tracer.planes[j].has_pixelization
         THEN mapped_reconstructed_image[pixel] ELSE 0)

\* C19: subtracted_images_of_planes has exactly one entry per plane of the
\* tracer, entry i being the data image minus the sum of the model images of
\* all planes j different from i; plane i's own model image is never
\* subtracted, and with a single plane the entry equals the data image.
C19_SubtractedImagesOfPlanes ==
    ReturnedBy("FitImaging", "subtracted_images_of_planes") =>
        LET n == Len(obj.tracer.planes)
        IN  /\ DOMAIN ret.value = 1..n
            /\ \A i \in 1..n :
                 /\ DOMAIN ret.value[i] = DOMAIN obj.image
                 /\ \A pixel \in DOMAIN obj.image :
                      ret.value[i][pixel]
                        = obj.image[pixel]
                            - SumSet((1..n) \ {i},
                                     [j \in (1..n) \ {i} |-> ModelImageAt(obj, j, pixel)])
            /\ n = 1 => ret.value = <<obj.image>>

\* The subtracted images of a tracer of three planes with different model
\* images, the second with a pixelization, were returned: the data image
\* <<9, 7>> minus <<3+2, 1+1>>, minus <<1, 2>>, minus <<1+3+2, 2+1+1>>.
C19_Witness ==
    /\ ReturnedBy("FitImaging", "subtracted_images_of_planes")
    /\ Len(obj.tracer.planes) = 3
    /\ obj.tracer.planes[1] = [blurred_image |-> <<1, 2>>, has_pixelization |-> FALSE]
    /\ obj.tracer.planes[2] = [blurred_image |-> <<3, 1>>, has_pixelization |-> TRUE]
    /\ obj.tracer.planes[3] = [blurred_image |-> <<0, 0>>, has_pixelization |-> FALSE]
    /\ ret.value = << <<4, 5>>, <<8, 5>>, <<3, 3>> >>

\* The plane has a critical surface density, in both units.
HasCriticalDensity(plane) ==
    plane.critical_density_kpc # None /\ plane.critical_density_arcsec # None

\* The plane has no critical surface density, in either unit.
HasNoCriticalDensity(plane) ==
    plane.critical_density_kpc = None /\ plane.critical_density_arcsec = None

\* An object was constructed with a cosmology.
ConstructedWithCosmology ==
    obj # Nothing /\ call.op \in {"Plane", "Tracer", "MultiTracer"}
        /\ call.cosmology # None

\* C20 as stated: with a cosmology supplied, a plane is given a critical
\* surface density only when it has both a previous-plane redshift and a
\* next-plane redshift; a plane lacking either (the first or the last plane)
\* has none.
C20_CriticalDensityNeedsBothNeighbours ==
    ConstructedWithCosmology =>
        \A i \in 1..Len(AllPlanesOf(obj)) :
            LET plane == AllPlanesOf(obj)[i]
            IN  (plane.previous_redshift = None \/ plane.next_redshift = None)
                    => HasNoCriticalDensity(plane)

\* C20, amended: with a cosmology supplied, a plane is given a critical
\* surface density (critical_density_kpc and critical_density_arcsec) exactly
\* when it has a next-plane redshift, whether or not it has a previous-plane
\* redshift: every plane of a tracer but the last has one, the first
\* included, and the last plane and a plane built on its own have none;
\* without a cosmology no plane has one.
C20_CriticalDensityIffNextRedshift ==
    (obj # Nothing /\ call.op \in {"Plane", "Tracer", "MultiTracer"}) =>
        \A i \in 1..Len(AllPlanesOf(obj)) :
            LET plane == AllPlanesOf(obj)[i]
            IN  IF call.cosmology # None /\ plane.next_redshift # None
                THEN /\ HasCriticalDensity(plane)
                     /\ i < Len(AllPlanesOf(obj))
                ELSE /\ HasNoCriticalDensity(plane)
                     /\ call.cosmology # None => i = Len(AllPlanesOf(obj))

\* A MultiTracer of three planes was built with a cosmology: the first plane
\* has no previous redshift and has a critical density, the second has both
\* neighbours and has one, the last has none.
C20_Witness ==
    /\ ConstructedWithCosmology /\ obj.kind = "MultiTracer"
    /\ Len(obj.planes) = 3
    /\ obj.planes[1].previous_redshift = None /\ HasCriticalDensity(obj.planes[1])
    /\ obj.planes[2].previous_redshift # None /\ HasCriticalDensity(obj.planes[2])
    /\ obj.planes[3].next_redshift = None /\ HasNoCriticalDensity(obj.planes[3])

\* C21: constructing a plane whose galaxies all have redshift None raises no
\* exception, also when a cosmology is supplied: the plane is constructed, and
\* its redshift, that of its galaxies, is None.
C21_NoRedshiftPlaneConstructs ==
    (call.op = "Plane" /\ call.galaxies # <<>>
        /\ RedshiftsOf(call.galaxies) = {None}) =>
        /\ obj # Nothing
        /\ RedshiftsOf(obj.galaxies) = {None}

\* The places (plane, position) at which the galaxy of an id stands in the
\* galaxy lists of the planes.
PlacesOf(planes, id) ==
    {ik \in (1..Len(planes)) \X (1..MaxGalaxies) :
        /\ ik[2] <= Len(planes[ik[1]].galaxies)
        /\ planes[ik[1]].galaxies[ik[2]].id = id}

\* C22: after MultiTracer construction every input galaxy appears in exactly
\* one plane's galaxy list, exactly once, that plane being the one whose
\* redshift equals the galaxy's redshift; no plane's galaxy list is empty and
\* the plane lists together contain no galaxy that was not in the input.
C22_EveryGalaxyInExactlyOnePlane ==
    (obj # Nothing /\ obj.kind = "MultiTracer") =>
        /\ \A id \in 1..Len(call.galaxies) :
             /\ Cardinality(PlacesOf(obj.planes, id)) = 1
             /\ \A ik \in PlacesOf(obj.planes, id) :
                  obj.planes_redshift_order[ik[1]] = call.galaxies[id].redshift
        /\ \A i \in 1..Len(obj.planes) :
             /\ obj.planes[i].galaxies # <<>>
             /\ Len(obj.planes[i].galaxies) <= MaxGalaxies
             /\ \A k \in 1..Len(obj.planes[i].galaxies) :
                  LET galaxy == obj.planes[i].galaxies[k]
                  IN  /\ galaxy.id \in 1..Len(call.galaxies)
                      /\ galaxy = call.galaxies[galaxy.id]

\* A MultiTracer was built from three galaxies at two redshifts given out of
\* order: the plane of the lower redshift holds the second galaxy, the plane
\* of the higher one the first and the third.
C22_Witness ==
    /\ obj # Nothing /\ obj.kind = "MultiTracer"
    /\ Len(call.galaxies) = 3 /\ Len(obj.planes) = 2
    /\ IdsOf(obj.planes[1].galaxies) = <<2>>
    /\ IdsOf(obj.planes[2].galaxies) = <<1, 3>>

\* C23: in MultiTracer, plane i is constructed with previous_redshift equal to
\* the redshift of plane i-1 (None for the first plane) and next_redshift
\* equal to the redshift of plane i+1 (None for the last plane), for every
\* number of planes; RayTracingException is raised for no input.
C23_PlanesKnowTheirNeighbours ==
    (call.op = "MultiTracer" /\ call.galaxies # <<>>
        /\ None \notin RedshiftsOf(call.galaxies)) =>
        /\ raised # "RayTracingException"
        /\ obj # Nothing
        /\ LET n == Len(obj.planes)
           IN  \A i \in 1..n :
                 /\ obj.planes[i].previous_redshift
                      = IF i = 1 THEN None ELSE obj.planes_redshift_order[i - 1]
                 /\ obj.planes[i].next_redshift
                      = IF i = n THEN None ELSE obj.planes_redshift_order[i + 1]

\* C24: log_likelihood_function returns the fit's figure of merit when the
\* fit succeeds; when the fit raises PixelizationException,
\* InversionException, GridException or OverflowError it raises FitException
\* instead; every other exception propagates unchanged, and the fit is never
\* retried.
C24_LogLikelihoodFunctionOutcome ==
    call.op = "log_likelihood_function" =>
        LET fit == call.fits[1]
        IN  /\ obj.fit_calls = 1
            /\ fit.raised = NoException =>
                 /\ raised = NoException
                 /\ ret = ReturnedFrom("log_likelihood_function", fit.figure_of_merit)
            /\ fit.raised \in {"PixelizationException", "InversionException",
                               "GridException", "OverflowError"} =>
                 raised = "FitException" /\ ret = Nothing
            /\ fit.raised \in {"RayTracingException", "ValueError"} =>
                 raised = fit.raised /\ ret = Nothing

\* log_likelihood_function raised FitException for a fit that raised
\* InversionException, although a second fit would have returned.
C24_Witness ==
    /\ call.op = "log_likelihood_function"
    /\ call.fits[1] = FitRaises("InversionException")
    /\ call.fits[2] = FitReturns(2)
    /\ raised = "FitException"

\* The positions among the first preload_attempts fits at which the fit returns.
FitsThatReturn(fits, preload_attempts) ==
    {k \in 1..preload_attempts : fits[k].raised = NoException}

\* C25: preload_fit_list_from_random_instances tries at most preload_attempts
\* random instances, returns the fit of the first instance whose fit does not
\* raise, and raises AnalysisException when every attempt raises, so that
\* set_preloads then records FAILED and returns without raising.
C25_PreloadingFailedIsReported ==
    /\ call.op = "preload_fit_list_from_random_instances" =>
         LET returning == FitsThatReturn(call.fits, call.preload_attempts)
         IN  /\ obj.fit_calls <= call.preload_attempts
             /\ returning # {} =>
                  /\ raised = NoException
                  /\ ret # Nothing
                  /\ ret.value \in returning
                  /\ \A k \in returning : ret.value <= k
             /\ returning = {} => raised = "AnalysisException"
    /\ (call.op = "set_preloads" /\ call.unit_values_raise
          /\ FitsThatReturn(call.fits, call.preload_attempts) = {}) =>
         /\ raised = NoException
         /\ obj.summary = Some("FAILED")

\* C26: set_preloads leaves the configuration flag
\* general.model.ignore_prior_limits equal to its value before the call on
\* every exit path, the path where preloading fails included.
C26_SetPreloadsRestoresIgnorePriorLimits ==
    call.op = "set_preloads" =>
        obj.ignore_prior_limits = call.ignore_prior_limits

\* C27: no two Prior objects ever share an id, also when priors are
\* constructed concurrently from several threads: ids are unique and strictly
\* increasing in creation order.
C27_PriorIdsUnique ==
    (obj # Nothing /\ obj.kind = "model_mapper") =>
        \A i, j \in 1..Len(obj.priors) :
            i < j => obj.priors[i].id < obj.priors[j].id

\* C28: after any sequence of ModelMapper construction, add_class,
\* add_classes and tying of priors, total_parameters equals the number of
\* unique priors, len(priors_ordered_by_id).
C28_TotalParametersCountsUniquePriors ==
    (obj # Nothing /\ obj.kind = "ModelMapper") =>
        obj.total_parameters = Len(priors_ordered_by_id(obj.prior_models))

\* C30: model_images_of_planes has one array per plane, and the element-wise
\* sum of its entries equals the fit's model image, the reconstructed image
\* counted exactly once, for any number of planes that have a pixelization.
C30_ModelImagesOfPlanesSumToModelImage ==
    ReturnedBy("FitImaging", "model_images_of_planes") =>
        /\ Len(ret.value) = Len(obj.tracer.planes)
        /\ SumArrays(ret.value, obj.image) = model_image(obj)

\* C29: in galaxy_model_image_dict, for each plane that has a pixelization
\* the reconstructed image is keyed by the galaxy of that plane that carries
\* the pixelization, and every other galaxy keeps its own blurred image,
\* wherever the pixelized galaxy stands in the plane's galaxy list.
C29_ReconstructedImageKeyedByPixelizedGalaxy ==
    ReturnedBy("FitImaging", "galaxy_model_image_dict") =>
        \A key \in GalaxiesOfTracer(obj.tracer) :
            LET galaxy == obj.tracer.planes[key[1]].galaxies[key[2]]
            IN  ret.value[key] = IF galaxy.has_pixelization
                                 THEN obj.inversion[1].mapped_reconstructed_image
                                 ELSE galaxy.blurred_image

====
